---- MODULE Spec2Model ----
(***************************************************************************)
(* Agent action lifecycle (agentPropose / agentConfirm) and the transcript *)
(* summary of the workspace backend, over the relational store described   *)
(* by server/src/db/schema.ts.                                             *)
(*                                                                         *)
(* Tables are sequences of rows; a serial primary key is the row's         *)
(* position.  A nullable column holds Null (<<>>) or Some(v) (<<v>>).      *)
(* A JSON object is a record that has exactly the keys that are present.   *)
(* Every handler runs in a request slot; a handler with several awaited    *)
(* store operations takes one step per store operation, so that requests   *)
(* interleave at the awaits.                                               *)
(***************************************************************************)
EXTENDS Integers, Sequences, FiniteSets, TLC

\* ---------------------------------------------------------------- bounds
MaxUsers == 1
MaxWorkspaces == 2
MaxEvents == 2
MaxTasks == 2
MaxCalls == 2
MaxLen == 4
MaxBlocks == 4
MaxNotes == 2
MaxTime == 1
MaxReminders == 2

VARIABLES
    users,          \* usersTable: sequence of rows
    workspaces,     \* workspacesTable
    agent_events,   \* agentEventsTable
    tasks,          \* tasksTable
    notes,          \* notesTable
    reminders,      \* remindersTable
    now,            \* the instant new Date() and defaultNow() read
    calls,          \* request slots: the handler invocations in flight
    response,       \* what the last step returned or threw to its caller (NoResponse: nothing)
    transcript,     \* the transcript handed to the transcript processor
    summary,        \* the last result of generateSummary (Null before the first)
    entities,       \* the last result of extractEntities (Null before the first)
    extracted_actions   \* the last result of extractActions (Null before the first)

vars == <<users, workspaces, agent_events, tasks, notes, reminders, now, calls, response,
          transcript, summary, entities, extracted_actions>>

\* ------------------------------------------------------------- store values
Null == <<>>
Some(v) == <<v>>

Slots == 1..MaxCalls

\* An id that references no row of any table (the tests use 99999).
NoSuchId == 99999

Ids(table) == {table[i].id : i \in 1..Len(table)}

\* JSON.stringify of a Date inside a json column yields a string.
DateToJSON(t) == ToString(t)

\* JavaScript values held in JSON objects, tagged with their runtime type.
JStr(s) == <<"string", s>>
JNum(n) == <<"number", n>>
JBool(b) == <<"boolean", b>>
JDate(t) == <<"date", t>>
TypeOf(v) == v[1]
ValueOf(v) == v[2]

\* What a json column gives back for a stored object: JSON.stringify turns a
\* Date into its ISO string, every other value is read back as it was written.
JsonRoundTrip(obj) ==
    [k \in DOMAIN obj |->
        IF TypeOf(obj[k]) = "date" THEN JStr(DateToJSON(ValueOf(obj[k]))) ELSE obj[k]]

Has(obj, key) == key \in DOMAIN obj
\* JavaScript truthiness of obj[key]: absent (undefined), "" and false are falsy.
Truthy(obj, key) ==
    /\ Has(obj, key)
    /\ obj[key] # JStr("")
    /\ obj[key] # JBool(FALSE)
    /\ obj[key] # JNum(0)

\* The due date string a proposal carries, and new Date(string) on it.
DueAtText == "2024-01-15T10:00:00Z"
ParseDate(s) == IF s = DueAtText THEN 7 ELSE -1

AgentEventStatus == {"draft", "awaiting_confirmation", "executed", "error"}

\* The (agent, action, input) triples proposed; after the fixtures of the
\* agentPropose and agentConfirm tests.  The inputs are JSON values, as the
\* gateway delivers them (z.record(z.unknown()) over a parsed request body).
Proposals ==
    { [agent |-> "task_agent", action |-> "create_task",
       input |-> [workspace_id |-> JNum(1), title |-> JStr("Test Task")]],
      [agent |-> "task_agent", action |-> "create_task",
       input |-> [workspace_id |-> JNum(2), title |-> JStr("Agent Created Task"),
                  description |-> JStr("Task created by agent"),
                  priority |-> JStr("high"), due_at |-> JStr(DueAtText)]],
      [agent |-> "task_agent", action |-> "create_task",
       input |-> [workspace_id |-> JNum(NoSuchId), title |-> JStr("Invalid Task")]],
      [agent |-> "calendar_agent", action |-> "create_event",
       input |-> [title |-> JStr("Team Meeting"),
                  start_time |-> JStr("2024-01-15T10:00:00Z")]] }

\* ------------------------------------------------------------ request slots
IdleCall == [pc |-> "idle"]

NoResponse == [op |-> "none"]

\* A new request runs in the first slot in which no handler is running
\* (slots have no identity of their own).
Free(c) ==
    /\ calls[c].pc = "idle"
    /\ \A d \in Slots : d < c => calls[d].pc # "idle"

\* A handler's promise resolves with a value / rejects with an Error.
Resolve(call, value) ==
    [op |-> call.op, input |-> call.input, outcome |-> "returned", value |-> value]
Reject(call, message) ==
    [op |-> call.op, input |-> call.input, outcome |-> "thrown", message |-> message]

\* ------------------------------------------------------------------ the store
ForeignKeyViolation == "violates foreign key constraint"
NotNullViolation == "violates not-null constraint"

\* db.insert(usersTable): a user row with the next serial id.
CreateUser ==
    /\ Len(users) < MaxUsers
    /\ response' = NoResponse
    /\ users' = Append(users, [id |-> Len(users) + 1])
    /\ UNCHANGED <<workspaces, agent_events, tasks, now, calls, transcript, summary, notes, reminders,
                 entities, extracted_actions>>

\* createWorkspace: one insert; owner_id references usersTable, so the
\* insert succeeds for an existing owner only.
CreateWorkspace ==
    /\ Len(workspaces) < MaxWorkspaces
    /\ response' = NoResponse
    /\ \E owner \in Ids(users) :
        workspaces' = Append(workspaces, [id |-> Len(workspaces) + 1, owner_id |-> owner])
    /\ UNCHANGED <<users, agent_events, tasks, now, calls, transcript, summary, notes, reminders,
                 entities, extracted_actions>>

\* AgentEventRow with the status of the inserted values ignored: every row
\* gets the column default.
AgentEventRowDefaultStatus(values) ==
    [id |-> Len(agent_events) + 1,
     workspace_id |-> values.workspace_id,
     agent |-> values.agent,
     action |-> values.action,
     input |-> JsonRoundTrip(values.input),
     output |-> IF Has(values, "output") THEN values.output ELSE Null,
     status |-> "draft",
     created_at |-> now]

\* The row agentEventsTable stores for inserted values: serial id, json
\* input, nullable output, status defaulting to 'draft', created_at now.
AgentEventRow(values) ==
    [id |-> Len(agent_events) + 1,
     workspace_id |-> values.workspace_id,
     agent |-> values.agent,
     action |-> values.action,
     input |-> JsonRoundTrip(values.input),
     output |-> IF Has(values, "output") THEN values.output ELSE Null,
     status |-> IF Has(values, "status") THEN values.status ELSE "draft",
     created_at |-> now]

\* UpdateAgentEvent without its where clause: every event is written.
UpdateAgentEventAll(event_id, set) ==
    [e \in 1..Len(agent_events) |->
        [agent_events[e] EXCEPT !.status = set.status,
                                !.output = Some(JsonRoundTrip(set.output))]]

\* UpdateAgentEvent as a conditional update: only an event that still awaits
\* confirmation is written.
UpdateAgentEventIfAwaiting(event_id, set) ==
    [e \in 1..Len(agent_events) |->
        IF agent_events[e].id = event_id /\ agent_events[e].status = "awaiting_confirmation"
        THEN [agent_events[e] EXCEPT !.status = set.status,
                                     !.output = Some(JsonRoundTrip(set.output))]
        ELSE agent_events[e]]

\* db.update(agentEventsTable).set(set).where(eq(id, event_id)).returning():
\* the table after the update, and the rows returned.
UpdateAgentEvent(event_id, set) ==
    [e \in 1..Len(agent_events) |->
        IF agent_events[e].id = event_id
        THEN [agent_events[e] EXCEPT !.status = set.status,
                                     !.output = Some(JsonRoundTrip(set.output))]
        ELSE agent_events[e]]

Returning(table, id) == SelectSeq(table, LAMBDA row : row.id = id)

\* TaskValues taking the status from the event's input when it has one.
TaskValuesStatusFromInput(eventInput) ==
    [workspace_id |-> IF Has(eventInput, "workspace_id")
                      THEN Some(ValueOf(eventInput["workspace_id"])) ELSE Null,
     title |-> IF Has(eventInput, "title") THEN Some(ValueOf(eventInput["title"])) ELSE Null,
     description |-> IF Truthy(eventInput, "description")
                     THEN Some(ValueOf(eventInput["description"])) ELSE Null,
     priority |-> IF Truthy(eventInput, "priority")
                  THEN ValueOf(eventInput["priority"]) ELSE "med",
     due_at |-> IF Truthy(eventInput, "due_at")
                THEN Some(ParseDate(ValueOf(eventInput["due_at"]))) ELSE Null,
     status |-> IF Truthy(eventInput, "status") THEN ValueOf(eventInput["status"]) ELSE "todo"]

\* The values agentConfirm inserts into tasksTable for a create_task event.
TaskValues(eventInput) ==
    [workspace_id |-> IF Has(eventInput, "workspace_id")
                      THEN Some(ValueOf(eventInput["workspace_id"])) ELSE Null,
     title |-> IF Has(eventInput, "title") THEN Some(ValueOf(eventInput["title"])) ELSE Null,
     description |-> IF Truthy(eventInput, "description")
                     THEN Some(ValueOf(eventInput["description"])) ELSE Null,
     priority |-> IF Truthy(eventInput, "priority")
                  THEN ValueOf(eventInput["priority"]) ELSE "med",
     due_at |-> IF Truthy(eventInput, "due_at")
                THEN Some(ParseDate(ValueOf(eventInput["due_at"]))) ELSE Null,
     status |-> "todo"]

\* TaskInsertError without the foreign key on workspace_id.
TaskInsertErrorNoForeignKey(values) ==
    IF values.workspace_id = Null \/ values.title = Null THEN Some(NotNullViolation)
    ELSE Null

\* The error tasksTable raises for inserted values, Null when it accepts them:
\* workspace_id and title are NOT NULL, workspace_id references workspacesTable.
TaskInsertError(values) ==
    IF values.workspace_id = Null \/ values.title = Null THEN Some(NotNullViolation)
    ELSE IF values.workspace_id[1] \notin Ids(workspaces) THEN Some(ForeignKeyViolation)
    ELSE Null

\* The row tasksTable stores for accepted values.
TaskRow(values) ==
    [id |-> Len(tasks) + 1,
     workspace_id |-> values.workspace_id[1],
     title |-> values.title[1],
     description |-> values.description,
     status |-> values.status,
     priority |-> values.priority,
     due_at |-> values.due_at,
     assignee_id |-> Null,
     linked_note_id |-> Null,
     created_at |-> now,
     updated_at |-> now]

\* --------------------------------------------------------------- agentPropose
Rationale == "Detected a follow-up in the meeting notes."

\* ProposeWorkspaceNotFound without the lookup of the workspace.
ProposeWorkspaceUnchecked(workspace_id) == FALSE

\* The workspace agentPropose is called for does not exist.
ProposeWorkspaceNotFound(workspace_id) == workspace_id \notin Ids(workspaces)

\* agentPropose: the workspace must exist (NotFound otherwise); the event is
\* stored awaiting confirmation with a null output and returned together
\* with the rationale, which is not stored.
AgentPropose(c) ==
    /\ Free(c)
    /\ \E ws \in Ids(workspaces) \cup {NoSuchId}, p \in Proposals :
        LET input == [workspace_id |-> ws, agent |-> p.agent, action |-> p.action,
                      input |-> p.input, rationale |-> Rationale]
            call == [pc |-> "run", op |-> "agentPropose", input |-> input]
            row == AgentEventRow([workspace_id |-> ws, agent |-> p.agent,
                                  action |-> p.action, input |-> p.input,
                                  output |-> Null, status |-> "awaiting_confirmation"])
        IN  IF ProposeWorkspaceNotFound(ws)
            THEN /\ agent_events' = agent_events
                 /\ response' = Reject(call, <<"Workspace with id ", ToString(ws), " not found">>)
            ELSE /\ Len(agent_events) < MaxEvents
                 /\ agent_events' = Append(agent_events, row)
                 /\ response' = Resolve(call, [agent_event |-> row,
                                               rationale |-> input.rationale])
    /\ UNCHANGED <<users, workspaces, tasks, now, calls, transcript, summary, notes, reminders,
                 entities, extracted_actions>>

\* --------------------------------------------------------------- agentConfirm
\* The handler awaits up to three store operations: the select of the event,
\* the insert of the task (create_task only) and the update of the event.
\* Each is one step; everything the handler computes between two awaits
\* belongs to the step of the earlier one.

\* SelectEvent without its where clause.
SelectAnyEvent(event_id) == agent_events

\* db.select().from(agentEventsTable).where(eq(agentEventsTable.id, event_id))
SelectEvent(event_id) == SelectSeq(agent_events, LAMBDA row : row.id = event_id)

NotFoundMessage(event_id) == <<"Agent event with id ", ToString(event_id), " not found">>

InvalidStateMessage(event_id, status) ==
    <<"Agent event ", ToString(event_id),
      " is not awaiting confirmation (current status: ", status, ")">>

RejectedOutput ==
    [rejected |-> JBool(TRUE), rejected_at |-> JDate(now),
     reason |-> JStr("User rejected proposal")]

\* RejectedSet leaving the event a draft instead of marking it an error.
RejectedSetDraft == [status |-> "draft", output |-> RejectedOutput]

\* What the update of a rejected proposal sets.
RejectedSet == [status |-> "error", output |-> RejectedOutput]

ApprovedOutput == [approved |-> JBool(TRUE), approved_at |-> JDate(now)]

\* GenericExecutionResult with a message that does not name the action.
GenericExecutionResultNoAction(action) ==
    [success |-> JBool(TRUE),
     message |-> <<"string", <<"Action executed successfully">>>>]

GenericExecutionResult(action) ==
    [success |-> JBool(TRUE),
     message |-> <<"string", <<"Action ", action, " executed successfully">>>>]

\* FinalStatus leaving the event as it was when the execution failed.
FinalStatusAwaitingOnFailure(executionResult) ==
    IF Truthy(executionResult, "success") THEN "executed" ELSE "awaiting_confirmation"

\* FinalStatus with the branches of the conditional exchanged.
FinalStatusSwapped(executionResult) ==
    IF Truthy(executionResult, "success") THEN "error" ELSE "executed"

\* The status the final update writes: executionResult['success'] ? ... : ...
FinalStatus(executionResult) ==
    IF Truthy(executionResult, "success") THEN "executed" ELSE "error"

\* NotAwaitingConfirmation refusing the events already executed only.
NotAwaitingConfirmationOnlyExecuted(existingEvent) == existingEvent.status = "executed"

\* existingEvent.status !== 'awaiting_confirmation'
NotAwaitingConfirmation(existingEvent) == existingEvent.status # "awaiting_confirmation"

\* Select the event, check it, and prepare the write that follows.
ConfirmSelect(c) ==
    /\ Free(c)
    /\ \E event_id \in Ids(agent_events) \cup {NoSuchId}, approved \in BOOLEAN :
        LET input == [event_id |-> event_id, approved |-> approved]
            call == [pc |-> "select", op |-> "agentConfirm", input |-> input]
            existingEvents == SelectEvent(event_id)
            existingEvent == existingEvents[1]
        IN  IF Len(existingEvents) = 0
            THEN /\ response' = Reject(call, NotFoundMessage(event_id))
                 /\ calls' = calls
            ELSE IF NotAwaitingConfirmation(existingEvent)
            THEN /\ response' = Reject(call, InvalidStateMessage(event_id, existingEvent.status))
                 /\ calls' = calls
            ELSE IF ~approved
            THEN /\ response' = NoResponse
                 /\ calls' = [calls EXCEPT ![c] = [call EXCEPT !.pc = "update_rejected"]
                        @@ [existingEvent |-> existingEvent,
                            set |-> RejectedSet]]
            ELSE IF existingEvent.action = "create_task"
            THEN /\ response' = NoResponse
                 /\ calls' = [calls EXCEPT ![c] = [call EXCEPT !.pc = "insert_task"]
                        @@ [existingEvent |-> existingEvent,
                            outputData |-> ApprovedOutput]]
            ELSE /\ response' = NoResponse
                 /\ calls' = [calls EXCEPT ![c] = [call EXCEPT !.pc = "update"]
                        @@ [existingEvent |-> existingEvent,
                            executionResult |-> GenericExecutionResult(existingEvent.action),
                            outputData |-> ApprovedOutput @@
                                [executed_action |-> JStr(existingEvent.action)]]]
    /\ UNCHANGED <<users, workspaces, agent_events, tasks, now, transcript, summary, notes, reminders,
                 entities, extracted_actions>>

\* approved = false: the update to 'error' and the return without execution_result.
ConfirmUpdateRejected(c) ==
    /\ calls[c].pc = "update_rejected"
    /\ agent_events' = UpdateAgentEvent(calls[c].input.event_id, calls[c].set)
    /\ LET updatedEvent == Returning(agent_events', calls[c].input.event_id) IN
        response' = Resolve(calls[c], [agent_event |-> updatedEvent[1]])
    /\ calls' = [calls EXCEPT ![c] = IdleCall]
    /\ UNCHANGED <<users, workspaces, tasks, now, transcript, summary, notes, reminders,
                 entities, extracted_actions>>

\* approved = true, action create_task: the insert of the task inside try/catch.
ConfirmInsertTask(c) ==
    /\ calls[c].pc = "insert_task"
    /\ LET values == TaskValues(calls[c].existingEvent.input)
           error == TaskInsertError(values)
           newTask == TaskRow(values)
       IN  IF error = Null
           THEN /\ Len(tasks) < MaxTasks
                /\ tasks' = Append(tasks, newTask)
                /\ calls' = [calls EXCEPT ![c] = [calls[c] EXCEPT
                        !.pc = "update",
                        !.outputData = @ @@ [executed_action |-> JStr("task_created"),
                                            task_id |-> JNum(newTask.id)]]
                     @@ [executionResult |->
                            [success |-> JBool(TRUE),
                             created_task_id |-> JNum(newTask.id),
                             message |-> JStr("Task created successfully")]]]
           ELSE /\ tasks' = tasks
                /\ calls' = [calls EXCEPT ![c] = [calls[c] EXCEPT
                        !.pc = "update",
                        !.outputData = @ @@ [execution_error |-> JStr(error[1])]]
                     @@ [executionResult |->
                            [success |-> JBool(FALSE), error |-> JStr(error[1])]]]
    /\ response' = NoResponse
    /\ UNCHANGED <<users, workspaces, agent_events, now, transcript, summary, notes, reminders,
                 entities, extracted_actions>>

\* approved = true: the update to 'executed' or 'error' and the return.
ConfirmUpdate(c) ==
    /\ calls[c].pc = "update"
    /\ agent_events' = UpdateAgentEvent(calls[c].input.event_id,
            [status |-> FinalStatus(calls[c].executionResult),
             output |-> calls[c].outputData])
    /\ LET updatedEvent == Returning(agent_events', calls[c].input.event_id) IN
        response' = Resolve(calls[c],
            [agent_event |-> updatedEvent[1],
             execution_result |-> calls[c].executionResult])
    /\ calls' = [calls EXCEPT ![c] = IdleCall]
    /\ UNCHANGED <<users, workspaces, tasks, now, transcript, summary, notes, reminders,
                 entities, extracted_actions>>

\* The error of a store operation that the store could not carry out.
StoreFailure == "store operation failed"

\* The update of the event is rejected by the store: nothing is written, the
\* outer catch logs the error and throws it on.
ConfirmUpdateFails(c) ==
    /\ calls[c].pc \in {"update", "update_rejected"}
    /\ response' = Reject(calls[c], <<StoreFailure>>)
    /\ calls' = [calls EXCEPT ![c] = IdleCall]
    /\ UNCHANGED <<users, workspaces, agent_events, tasks, now, transcript, summary, notes,
                   reminders, entities, extracted_actions>>

\* ConfirmSelect while the task table has room for the task of every call in
\* flight and of this one.
ConfirmSelectBounded(c) ==
    /\ Len(tasks) + Cardinality({d \in Slots : calls[d].pc = "insert_task"}) < MaxTasks
    /\ ConfirmSelect(c)

\* ------------------------------------------------------ transcript processor
\* A transcript is a sequence of characters.  The text a template literal
\* builds is the sequence of its pieces: each literal part is one piece, an
\* interpolated string contributes its characters, a number its decimal form.
Chars == {"a", ".", " ", "\n"}
Whitespace == {" ", "\n"}
Transcripts == UNION {[1..n -> Chars] : n \in 0..MaxLen}

\* String.prototype.split(sep) for a non-empty separator: the pieces between
\* the occurrences of sep, found left to right without overlap.
RECURSIVE SplitFrom(_, _, _)
SplitFrom(s, sep, i) ==
    LET found == {j \in i..(Len(s) - Len(sep) + 1) : SubSeq(s, j, j + Len(sep) - 1) = sep}
    IN  IF found = {} THEN <<SubSeq(s, i, Len(s))>>
        ELSE LET j == CHOOSE x \in found : \A y \in found : x <= y
             IN  <<SubSeq(s, i, j - 1)>> \o SplitFrom(s, sep, j + Len(sep))

Split(s, sep) == SplitFrom(s, sep, 1)

\* String.prototype.trim: drop the whitespace at both ends.
RECURSIVE TrimStart(_)
TrimStart(s) == IF s # <<>> /\ Head(s) \in Whitespace THEN TrimStart(Tail(s)) ELSE s

RECURSIVE TrimEnd(_)
TrimEnd(s) ==
    IF s # <<>> /\ s[Len(s)] \in Whitespace THEN TrimEnd(SubSeq(s, 1, Len(s) - 1)) ELSE s

\* Trim that leaves the whitespace at the end.
TrimStartOnly(s) == TrimStart(s)

Trim(s) == TrimEnd(TrimStart(s))

EndsWith(s, ch) == s # <<>> /\ s[Len(s)] = ch

generateSummary(t) ==
    LET sentences == SelectSeq(Split(t, <<".", " ">>), LAMBDA x : Len(Trim(x)) > 0)
        firstSentence == Trim(sentences[1])
        wordCount == Len(Split(t, <<" ">>))
    IN  IF Len(sentences) = 0 THEN <<"Meeting transcript processed.">>
        ELSE <<"Meeting summary: ">> \o firstSentence
                \o (IF EndsWith(firstSentence, ".") THEN <<>> ELSE <<".">>)
                \o <<" (", ToString(wordCount), " words transcribed)">>

\* The summary step of finalizeMeeting on the transcript it was given.
GenerateSummary ==
    /\ summary = Null
    /\ summary' = Some(generateSummary(transcript))
    /\ UNCHANGED <<users, workspaces, agent_events, tasks, notes, reminders, now, calls,
                   response, transcript, entities, extracted_actions>>

\* --------------------------------------------------------- entity extraction
\* The characters of a string literal.
Text(str) == [i \in 1..Len(str) |-> SubSeq(str, i, i)]

Upper == Text("ABCDEFGHIJKLMNOPQRSTUVWXYZ")
Lower == Text("abcdefghijklmnopqrstuvwxyz")
Digits == {"0", "1", "2", "3", "4", "5", "6", "7", "8", "9"}

UpperCase == {Upper[i] : i \in 1..Len(Upper)}
LowerCase == {Lower[i] : i \in 1..Len(Lower)}
LowerOf == [ch \in UpperCase |-> Lower[CHOOSE k \in 1..Len(Upper) : Upper[k] = ch]]

IsUpper(ch) == ch \in UpperCase
IsLower(ch) == ch \in LowerCase
\* \w of a regular expression
IsWordChar(ch) == IsUpper(ch) \/ IsLower(ch) \/ ch \in Digits \/ ch = "_"

\* String.prototype.toLowerCase
toLowerCase(s) == [i \in 1..Len(s) |-> IF IsUpper(s[i]) THEN LowerOf[s[i]] ELSE s[i]]

\* String.prototype.includes
Includes(s, part) ==
    \E i \in 1..(Len(s) - Len(part) + 1) : SubSeq(s, i, i + Len(part) - 1) = part

\* The last index of the run of characters of the class that starts at i.
RunEnd(s, class, i) ==
    CHOOSE j \in i..Len(s) :
        /\ \A k \in i..j : s[k] \in class
        /\ j = Len(s) \/ s[j + 1] \notin class

\* String.prototype.split with the regular expression /[class]+/: the pieces
\* between the maximal runs of characters of the class.
RECURSIVE SplitRunsFrom(_, _, _)
SplitRunsFrom(s, class, i) ==
    LET found == {j \in i..Len(s) : s[j] \in class}
    IN  IF found = {} THEN <<SubSeq(s, i, Len(s))>>
        ELSE LET j == CHOOSE x \in found : \A y \in found : x <= y
             IN  <<SubSeq(s, i, j - 1)>> \o SplitRunsFrom(s, class, RunEnd(s, class, j) + 1)

SplitRuns(s, class) == SplitRunsFrom(s, class, 1)

\* .map(s => s.trim())
TrimAll(xs) == [i \in 1..Len(xs) |-> Trim(xs[i])]

\* [...new Set(xs)]: the first occurrence of every element, in order.
RECURSIVE Unique(_)
Unique(xs) ==
    IF xs = <<>> THEN <<>>
    ELSE LET front == Unique(SubSeq(xs, 1, Len(xs) - 1))
             last == xs[Len(xs)]
         IN  IF \E i \in 1..Len(front) : front[i] = last THEN front
             ELSE Append(front, last)

\* Array.prototype.slice(0, n)
Slice(xs, n) == SubSeq(xs, 1, IF Len(xs) < n THEN Len(xs) ELSE n)

\* /^[A-Z][a-z]+$/
IsCapitalizedWord(word) ==
    /\ Len(word) >= 2
    /\ IsUpper(word[1])
    /\ \A i \in 2..Len(word) : IsLower(word[i])

StopWords ==
    {Text("The"), Text("This"), Text("That"), Text("We"), Text("They"),
     Text("Meeting"), Text("Today")}

MaxPeople == 5
MaxDecisions == 3

potentialNames(t) ==
    SelectSeq(SplitRuns(t, Whitespace),
              LAMBDA word : IsCapitalizedWord(word) /\ word \notin StopWords)

MonthNames ==
    <<Text("January"), Text("February"), Text("March"), Text("April"), Text("May"),
      Text("June"), Text("July"), Text("August"), Text("September"), Text("October"),
      Text("November"), Text("December")>>

OrdinalSuffixes == {Text("st"), Text("nd"), Text("rd"), Text("th")}

\* The text at i is the word, letter case ignored (flag i).
StartsAt(s, i, word) ==
    /\ i + Len(word) - 1 <= Len(s)
    /\ \A k \in 1..Len(word) : toLowerCase(<<s[i + k - 1]>>) = toLowerCase(<<word[k]>>)

DigitsAt(s, i, n) == i + n - 1 <= Len(s) /\ \A k \in i..(i + n - 1) : s[k] \in Digits

\* The first index at or after i that holds no whitespace (Len(s) + 1 if none).
SkipWhitespace(s, i) ==
    IF i <= Len(s) /\ s[i] \in Whitespace THEN RunEnd(s, Whitespace, i) + 1 ELSE i

\* \b after index e: a word character at e and none at e + 1.
WordEndsAt(s, e) == IsWordChar(s[e]) /\ (e = Len(s) \/ ~IsWordChar(s[e + 1]))

\* The index after (?:st|nd|rd|th) at i, or 0.
SuffixEnd(s, i) ==
    IF \E suffix \in OrdinalSuffixes : StartsAt(s, i, suffix) THEN i + 2 ELSE 0

\* The index after (?:,\s*\d{4}) at i, or 0.
YearEnd(s, i) ==
    IF i <= Len(s) /\ s[i] = ","
    THEN LET d == SkipWhitespace(s, i + 1)
         IN  IF DigitsAt(s, d, 4) THEN d + 4 ELSE 0
    ELSE 0

\* The ends (index after the match) of the day part that starts at index d with
\* n digits, in the order the backtracking matcher tries them: each optional
\* group is first taken, then left out; a candidate counts when \b holds.
DayEnds(s, d, n) ==
    IF ~DigitsAt(s, d, n) THEN <<>>
    ELSE LET bare == d + n
             suffixed == SuffixEnd(s, bare)
             tried == (IF suffixed > 0
                       THEN (IF YearEnd(s, suffixed) > 0 THEN <<YearEnd(s, suffixed)>> ELSE <<>>)
                            \o <<suffixed>>
                       ELSE <<>>)
                      \o (IF YearEnd(s, bare) > 0 THEN <<YearEnd(s, bare)>> ELSE <<>>)
                      \o <<bare>>
         IN  SelectSeq(tried, LAMBDA e : WordEndsAt(s, e - 1))

\* datePattern matched at index i: the index of the last character of the
\* match, or 0 when the pattern does not match there.
datePattern(s, i) ==
    IF i > 1 /\ IsWordChar(s[i - 1]) THEN 0
    ELSE IF ~\E m \in 1..Len(MonthNames) : StartsAt(s, i, MonthNames[m]) THEN 0
    ELSE LET month == MonthNames[CHOOSE m \in 1..Len(MonthNames) : StartsAt(s, i, MonthNames[m])]
             space == i + Len(month)
             day == SkipWhitespace(s, space)
             ends == DayEnds(s, day, 2) \o DayEnds(s, day, 1)
         IN  IF day = space \/ ends = <<>> THEN 0 ELSE ends[1] - 1

\* String.prototype.match with a global pattern: the matches from left to
\* right, each search starting after the previous match.
RECURSIVE MatchDatesFrom(_, _)
MatchDatesFrom(s, i) ==
    LET found == {j \in i..Len(s) : datePattern(s, j) > 0}
    IN  IF found = {} THEN <<>>
        ELSE LET j == CHOOSE x \in found : \A y \in found : x <= y
                 e == datePattern(s, j)
             IN  <<SubSeq(s, j, e)>> \o MatchDatesFrom(s, e + 1)

dateMatches(t) == MatchDatesFrom(t, 1)

SentenceEnds == {".", "!", "?"}

\* transcript.split(/[.!?]+/).map(s => s.trim()).filter(s => s.length > 0)
Sentences(t) == SelectSeq(TrimAll(SplitRuns(t, SentenceEnds)), LAMBDA x : Len(x) > 0)

decisionKeywords == {Text("decided"), Text("agreed"), Text("concluded"), Text("resolved")}

ContainsKeyword(sentence, keywords) ==
    LET lowered == toLowerCase(sentence)
    IN  \E keyword \in keywords : Includes(lowered, keyword)

extractEntities(t) ==
    [decisions |-> Slice(SelectSeq(Sentences(t),
                                   LAMBDA x : ContainsKeyword(x, decisionKeywords)),
                         MaxDecisions),
     risks |-> <<>>,
     people |-> Slice(Unique(potentialNames(t)), MaxPeople),
     dates |-> Unique(dateMatches(t))]

\* ---------------------------------------------------------- action extraction
actionKeywords ==
    {Text("need to"), Text("should"), Text("will"), Text("must"), Text("action item"),
     Text("follow up"), Text("todo")}

MaxActions == 3
MaxTitle == 100
TitleCut == 97

Undefined == <<"undefined">>

Ellipsis == Text("...")

\* ActionTitle that also cuts a sentence of exactly MaxTitle characters.
ActionTitleAtLimit(sentence) ==
    IF Len(sentence) >= MaxTitle THEN SubSeq(sentence, 1, TitleCut) \o Ellipsis ELSE sentence

ActionTitle(sentence) ==
    IF Len(sentence) > MaxTitle THEN SubSeq(sentence, 1, TitleCut) \o Ellipsis ELSE sentence

\* ActionPriority counting the items from one.
ActionPriorityFromOne(index) == IF index = 1 THEN "high" ELSE IF index = 2 THEN "med" ELSE "low"

ActionPriority(index) == IF index = 0 THEN "high" ELSE IF index = 1 THEN "med" ELSE "low"

extractActions(t) ==
    LET matching == Slice(SelectSeq(Sentences(t),
                                    LAMBDA x : ContainsKeyword(x, actionKeywords)),
                          MaxActions)
    IN  [k \in 1..Len(matching) |->
            [title |-> ActionTitle(matching[k]),
             priority |-> ActionPriority(k - 1),
             due_at |-> Undefined]]

\* The entity step and the action step of finalizeMeeting on the transcript.
ExtractEntities ==
    /\ entities = Null
    /\ entities' = Some(extractEntities(transcript))
    /\ UNCHANGED <<users, workspaces, agent_events, tasks, notes, reminders, now, calls,
                   response, transcript, summary, extracted_actions>>

ExtractActions ==
    /\ extracted_actions = Null
    /\ extracted_actions' = Some(extractActions(transcript))
    /\ UNCHANGED <<users, workspaces, agent_events, tasks, notes, reminders, now, calls,
                   response, transcript, summary, entities>>

\* Meeting transcripts are made of up to MaxBlocks phrases: names and stop
\* words, a decision, action items (one of exactly MaxTitle characters), dates
\* in several spellings.
LongAction == Text("todo ") \o [i \in 1..(MaxTitle - 5) |-> "x"] \o Text(".")

Phrases ==
    {Text("Al Bo Cy "), Text("Di Ed Fy We\n"), Text("We decided a. "),
     Text("Al WILL b! Must c? "), LongAction, Text("march 5 March 5 may 12th, 2024. ")}

RECURSIVE Concat(_)
Concat(blocks) == IF blocks = <<>> THEN <<>> ELSE Head(blocks) \o Concat(Tail(blocks))

MeetingTranscripts == {Concat(blocks) : blocks \in UNION {[1..n -> Phrases] : n \in 0..MaxBlocks}}

\* ------------------------------------------------------------ finalizeMeeting
\* Array.prototype.join: the items with the separator between them.
RECURSIVE Join(_, _)
Join(items, separator) ==
    IF items = <<>> THEN <<>>
    ELSE IF Len(items) = 1 THEN items[1]
    ELSE items[1] \o separator \o Join(Tail(items), separator)

\* entities.decisions.map(d => `- ${d}`)
DecisionLines(decisions) == [i \in 1..Len(decisions) |-> <<"- ">> \o decisions[i]]

\* extractedActions.map(a => `- ${a.title} (Priority: ${a.priority})`)
ActionLines(items) ==
    [i \in 1..Len(items) |->
        <<"- ">> \o items[i].title \o <<" (Priority: ", items[i].priority, ")">>]

NoneIdentified == <<"None identified">>

\* ContentMd with the decisions before the people.
ContentMdDecisionsFirst(heading, body, summaryLine, lists, items) ==
    <<"# ">> \o heading
    \o <<"\n\n## Summary\n">> \o summaryLine
    \o <<"\n\n## Transcript\n">> \o body
    \o <<"\n\n## Decisions Made\n">>
    \o (IF Len(lists.decisions) > 0
        THEN Join(DecisionLines(lists.decisions), <<"\n">>)
        ELSE NoneIdentified)
    \o <<"\n\n## Key People\n">>
    \o (IF Len(lists.people) > 0 THEN Join(lists.people, <<", ">>) ELSE NoneIdentified)
    \o <<"\n\n## Action Items\n">>
    \o (IF Len(items) > 0
        THEN Join(ActionLines(items), <<"\n">>)
        ELSE NoneIdentified)

\* The markdown of the note.  Each literal part of the template is one
\* piece; the interpolated strings contribute their characters.
ContentMd(heading, body, summaryLine, lists, items) ==
    <<"# ">> \o heading
    \o <<"\n\n## Summary\n">> \o summaryLine
    \o <<"\n\n## Transcript\n">> \o body
    \o <<"\n\n## Key People\n">>
    \o (IF Len(lists.people) > 0 THEN Join(lists.people, <<", ">>) ELSE NoneIdentified)
    \o <<"\n\n## Decisions Made\n">>
    \o (IF Len(lists.decisions) > 0
        THEN Join(DecisionLines(lists.decisions), <<"\n">>)
        ELSE NoneIdentified)
    \o <<"\n\n## Action Items\n">>
    \o (IF Len(items) > 0
        THEN Join(ActionLines(items), <<"\n">>)
        ELSE NoneIdentified)

\* The json column stores the entities object: its keys with their lists.
EntitiesToJSON(found) ==
    [key \in DOMAIN found |-> [i \in 1..Len(found[key]) |-> found[key][i]]]

\* NoteInsertError without the reference of workspace_id to workspacesTable.
NoteInsertErrorNoWorkspace(values) ==
    IF values.created_by \notin Ids(users) THEN Some(ForeignKeyViolation) ELSE Null

\* NoteInsertError without the reference of created_by to usersTable.
NoteInsertErrorNoCreator(values) ==
    IF values.workspace_id \notin Ids(workspaces) THEN Some(ForeignKeyViolation) ELSE Null

\* workspace_id references workspacesTable, created_by references usersTable.
NoteInsertError(values) ==
    IF values.workspace_id \notin Ids(workspaces) \/ values.created_by \notin Ids(users)
    THEN Some(ForeignKeyViolation)
    ELSE Null

\* NoteRow with the source of a hand-written note.
NoteRowManual(values) ==
    [id |-> Len(notes) + 1,
     workspace_id |-> values.workspace_id,
     title |-> values.title,
     source |-> "manual",
     content_md |-> values.content_md,
     transcript_text |-> values.transcript_text,
     summary_text |-> values.summary_text,
     entities |-> EntitiesToJSON(values.entities),
     created_by |-> values.created_by,
     created_at |-> now,
     updated_at |-> now]

\* The row notesTable stores for accepted values.
NoteRow(values) ==
    [id |-> Len(notes) + 1,
     workspace_id |-> values.workspace_id,
     title |-> values.title,
     source |-> values.source,
     content_md |-> values.content_md,
     transcript_text |-> values.transcript_text,
     summary_text |-> values.summary_text,
     entities |-> EntitiesToJSON(values.entities),
     created_by |-> values.created_by,
     created_at |-> now,
     updated_at |-> now]

\* InsertedNotes storing the row a second time.
InsertedNotesTwice(row) == Append(Append(notes, row), [row EXCEPT !.id = row.id + 1])

\* notesTable after db.insert(notesTable).values(...) of an accepted row.
InsertedNotes(row) == Append(notes, row)

MeetingTitles == {Text("Standup")}

\* The transcripts finalizeMeeting is called with: empty, without anything to
\* extract, the end-to-end scenario, and one with four action sentences.
MeetingInputs ==
    {<<>>,
     Text("Meeting completed successfully with all participants."),
     Text("John said we decided to ship on March 15th, 2024. We need to update the docs."),
     Text("i WILL b! must c? we decided a. ") \o LongAction \o Text(" you should d.")}

\* What finalizeMeeting computes of a transcript before it calls the store.
Processed ==
    [text \in MeetingInputs |->
        [summary |-> generateSummary(text),
         entities |-> extractEntities(text),
         extracted_actions |-> extractActions(text)]]

\* finalizeMeeting: the transcript is processed, the note is inserted (the one
\* store operation of the handler) and returned with the processing results;
\* an error of the insert is thrown on.
FinalizeMeeting(c) ==
    /\ Free(c)
    /\ \E ws \in Ids(workspaces) \cup {NoSuchId}, creator \in Ids(users) \cup {NoSuchId},
          title \in MeetingTitles, text \in MeetingInputs :
        \* lines 82-84: the processing results, computed once per call
        \E processing \in {Processed[text]} :
        LET input == [workspace_id |-> ws, transcript |-> text, title |-> title,
                      created_by |-> creator]
            call == [pc |-> "run", op |-> "finalizeMeeting", input |-> input]
            summaryText == processing.summary
            found == processing.entities
            actions == processing.extracted_actions
            values == [workspace_id |-> input.workspace_id,
                       title |-> input.title,
                       source |-> "meeting",
                       content_md |-> ContentMd(input.title, input.transcript, summaryText,
                                                found, actions),
                       transcript_text |-> Some(input.transcript),
                       summary_text |-> Some(summaryText),
                       entities |-> found,
                       created_by |-> input.created_by]
            note == NoteRow(values)
        IN  IF NoteInsertError(values) # Null
            THEN /\ notes' = notes
                 /\ response' = Reject(call, <<NoteInsertError(values)[1]>>)
            ELSE /\ Len(notes) < MaxNotes
                 /\ notes' = InsertedNotes(note)
                 /\ response' = Resolve(call,
                        [note |-> [note EXCEPT !.entities = found],
                         summary |-> summaryText,
                         entities |-> found,
                         extracted_actions |-> actions])
    /\ UNCHANGED <<users, workspaces, agent_events, tasks, reminders, now, calls,
                   transcript, summary, entities, extracted_actions>>

\* ------------------------------------------------------------ getAgentEvents
\* The orders in which the store may return the n rows of a query.
Orders(n) == {f \in [1..n -> 1..n] : \A i, j \in 1..n : f[i] = f[j] => i = j}

\* EventQueryMatches without the condition on the status.
EventQueryMatchesWorkspace(row, workspaceId, status) == row.workspace_id = workspaceId

\* The where clause: the workspace and, when a status is given, the status.
EventQueryMatches(row, workspaceId, status) ==
    IF status # Null
    THEN row.workspace_id = workspaceId /\ row.status = status[1]
    ELSE row.workspace_id = workspaceId

\* orderBy(desc(agentEventsTable.created_at)); rows with the same created_at
\* come in any order.
OrderedByCreatedAtDesc(rows) ==
    \A i, j \in 1..Len(rows) : i < j => rows[i].created_at >= rows[j].created_at

\* getAgentEvents: one select; nothing is written.
GetAgentEvents(c) ==
    /\ Free(c)
    /\ \E workspaceId \in Ids(workspaces) \cup {NoSuchId},
          status \in {Null} \cup {Some(st) : st \in AgentEventStatus} :
        LET call == [pc |-> "run", op |-> "getAgentEvents",
                     input |-> [workspaceId |-> workspaceId, status |-> status]]
            matching == SelectSeq(agent_events,
                                  LAMBDA row : EventQueryMatches(row, workspaceId, status))
        IN  \E order \in Orders(Len(matching)) :
                LET results == [i \in 1..Len(matching) |-> matching[order[i]]]
                IN  /\ OrderedByCreatedAtDesc(results)
                    /\ response' = Resolve(call, results)
    /\ UNCHANGED <<users, workspaces, agent_events, tasks, notes, reminders, now, calls,
                   transcript, summary, entities, extracted_actions>>

\* ------------------------------------------------------ getUpcomingReminders
DefaultLimit == 10

ReminderStatus == {"scheduled", "sent", "cancelled"}

\* limit || 10: the default also replaces a limit of 0.
QueryLimit(limit) == IF limit # Null /\ limit[1] # 0 THEN limit[1] ELSE DefaultLimit

\* The where clause over the join of the reminder with its task.
ReminderQueryMatches(row, workspaceId, instant) ==
    /\ \E i \in 1..Len(tasks) :
        tasks[i].id = row.task_id /\ tasks[i].workspace_id = workspaceId
    /\ row.remind_at > instant
    /\ row.status = "scheduled"

\* orderBy(asc(remindersTable.remind_at)); rows with the same remind_at come
\* in any order.
OrderedByRemindAtAsc(rows) ==
    \A i, j \in 1..Len(rows) : i < j => rows[i].remind_at <= rows[j].remind_at

\* getUpcomingReminders: one select with order and limit; nothing is written.
GetUpcomingReminders(c) ==
    /\ Free(c)
    /\ \E workspaceId \in Ids(workspaces) \cup {NoSuchId},
          limit \in {Null} \cup {Some(n) : n \in 0..MaxReminders} :
        LET call == [pc |-> "run", op |-> "getUpcomingReminders",
                     input |-> [workspaceId |-> workspaceId, limit |-> limit, now |-> now]]
            queryLimit == QueryLimit(limit)
            matching == SelectSeq(reminders,
                                  LAMBDA row : ReminderQueryMatches(row, workspaceId, now))
        IN  \E order \in Orders(Len(matching)) :
                LET ordered == [i \in 1..Len(matching) |-> matching[order[i]]]
                IN  /\ OrderedByRemindAtAsc(ordered)
                    /\ response' = Resolve(call, Slice(ordered, queryLimit))
    /\ UNCHANGED <<users, workspaces, agent_events, tasks, notes, reminders, now, calls,
                   transcript, summary, entities, extracted_actions>>

\* ----------------------------------------------------------------- updateTask
\* The handler awaits two store operations: the select of the task and its
\* update.  Each is one step.
UpdatableFields ==
    {"title", "description", "status", "priority", "due_at", "assignee_id", "linked_note_id"}

\* UpdateData that leaves out the fields given as null.
UpdateDataWithoutNulls(input) ==
    [key \in {k \in DOMAIN input \cap UpdatableFields :
                    k \in {"title", "status", "priority"} \/ input[k] # Null}
              \cup {"updated_at"} |->
        IF key = "updated_at" THEN now ELSE input[key]]

\* updateData: updated_at and the fields the input defines (null included).
UpdateData(input) ==
    [key \in (DOMAIN input \cap UpdatableFields) \cup {"updated_at"} |->
        IF key = "updated_at" THEN now ELSE input[key]]

\* assignee_id references usersTable, linked_note_id references notesTable.
TaskUpdateError(set) ==
    IF \/ "assignee_id" \in DOMAIN set /\ set.assignee_id # Null
                /\ set.assignee_id[1] \notin Ids(users)
       \/ "linked_note_id" \in DOMAIN set /\ set.linked_note_id # Null
                /\ set.linked_note_id[1] \notin Ids(notes)
    THEN Some(ForeignKeyViolation)
    ELSE Null

\* db.update(tasksTable).set(set).where(eq(tasksTable.id, id))
UpdatedTasks(id, set) ==
    [i \in 1..Len(tasks) |->
        IF tasks[i].id = id
        THEN [key \in DOMAIN tasks[i] |-> IF key \in DOMAIN set THEN set[key] ELSE tasks[i][key]]
        ELSE tasks[i]]

\* The inputs of updateTask besides the id: some fields, nullable fields
\* set and set to null, a reference to a user that does not exist, no field.
TaskUpdates ==
    {[title |-> "Only Title Updated", status |-> "done"],
     [description |-> Some("Test description"), assignee_id |-> Some(1),
      linked_note_id |-> Some(1)],
     [description |-> Null, assignee_id |-> Null, linked_note_id |-> Null],
     [due_at |-> Null, priority |-> "high"],
     [assignee_id |-> Some(NoSuchId)],
     [x \in {} |-> Null]}

TaskNotFoundMessage(id) == <<"Task with id ", ToString(id), " not found">>

\* Select of the task; without a row the handler throws; otherwise it builds
\* updateData and starts the update.
UpdateTaskSelect(c) ==
    /\ Free(c)
    /\ \E id \in Ids(tasks) \cup {NoSuchId}, fields \in TaskUpdates :
        LET input == [key \in DOMAIN fields \cup {"id"} |->
                        IF key = "id" THEN id ELSE fields[key]]
            call == [pc |-> "update_task", op |-> "updateTask", input |-> input]
            existingTasks == Returning(tasks, input.id)
        IN  IF Len(existingTasks) = 0
            THEN /\ response' = Reject(call, TaskNotFoundMessage(input.id))
                 /\ calls' = calls
            ELSE /\ response' = NoResponse
                 /\ calls' = [calls EXCEPT ![c] =
                                [pc |-> call.pc, op |-> call.op, input |-> input,
                                 updateData |-> UpdateData(input)]]
    /\ UNCHANGED <<users, workspaces, agent_events, tasks, notes, reminders, now,
                   transcript, summary, entities, extracted_actions>>

\* The update of the task; its first returned row is the handler's result, an
\* error of the store is thrown on.
UpdateTaskUpdate(c) ==
    /\ calls[c].pc = "update_task"
    /\ LET call == [pc |-> "update_task", op |-> "updateTask", input |-> calls[c].input]
           set == calls[c].updateData
       IN  IF TaskUpdateError(set) # Null
           THEN /\ tasks' = tasks
                /\ response' = Reject(call, <<TaskUpdateError(set)[1]>>)
           ELSE /\ tasks' = UpdatedTasks(call.input.id, set)
                /\ response' = Resolve(call,
                        IF Returning(tasks', call.input.id) = <<>> THEN Undefined
                        ELSE Returning(tasks', call.input.id)[1])
    /\ calls' = [calls EXCEPT ![c] = IdleCall]
    /\ UNCHANGED <<users, workspaces, agent_events, notes, reminders, now,
                   transcript, summary, entities, extracted_actions>>

\* --------------------------------------------------------- createCalendarDraft
JArr(items) == <<"array", items>>

\* The inputs of createCalendarDraft besides the workspace_id, as the schema
\* delivers them (start_time and end_time are Dates): every field given, and
\* the optional description and attendees omitted.
CalendarDrafts ==
    { [title |-> JStr("Team Meeting"), description |-> JStr("Weekly team sync"),
       start_time |-> JDate(2), end_time |-> JDate(3),
       attendees |-> JArr(<<"alice@example.com", "bob@example.com">>)],
      [title |-> JStr("Simple Meeting"), start_time |-> JDate(4), end_time |-> JDate(5)] }

\* AgentEventInsertError without the foreign key on workspace_id.
AgentEventInsertErrorUnchecked(values) == Null

\* The error agentEventsTable raises for inserted values, Null when it accepts
\* them: workspace_id references workspacesTable.
AgentEventInsertError(values) ==
    IF values.workspace_id \notin Ids(workspaces) THEN Some(ForeignKeyViolation) ELSE Null

\* calendar_event_preview: the fields of the input, the optional ones present
\* when the input has them.
CalendarEventPreview(input) ==
    [key \in DOMAIN input \cap {"title", "description", "start_time", "end_time", "attendees"}
        |-> input[key]]

\* createCalendarDraft: one insert of an event awaiting confirmation whose
\* input is the whole input of the call; an error of the insert is thrown on.
CreateCalendarDraft(c) ==
    /\ Free(c)
    /\ \E ws \in Ids(workspaces) \cup {NoSuchId}, draft \in CalendarDrafts :
        LET input == [key \in DOMAIN draft \cup {"workspace_id"} |->
                        IF key = "workspace_id" THEN JNum(ws) ELSE draft[key]]
            call == [pc |-> "run", op |-> "createCalendarDraft", input |-> input]
            values == [workspace_id |-> ws,
                       agent |-> "SchedulerAgent",
                       action |-> "create_calendar_event",
                       input |-> input,
                       output |-> Null,
                       status |-> "awaiting_confirmation"]
            row == AgentEventRow(values)
        IN  IF AgentEventInsertError(values) # Null
            THEN /\ agent_events' = agent_events
                 /\ response' = Reject(call, <<AgentEventInsertError(values)[1]>>)
            ELSE /\ Len(agent_events) < MaxEvents
                 /\ agent_events' = Append(agent_events, row)
                 /\ response' = Resolve(call,
                        [draft_event |-> row,
                         calendar_event_preview |-> CalendarEventPreview(input)])
    /\ UNCHANGED <<users, workspaces, tasks, notes, reminders, now, calls,
                   transcript, summary, entities, extracted_actions>>

\* ----------------------------------------------------------------- createNote
\* The inputs of createNote besides workspace_id and created_by: notes of
\* each source without the optional fields, and one with all of them.
NoteInputs ==
    { [title |-> Text("Test Note"), source |-> "manual", content_md |-> Text("# Test")],
      [title |-> Text("Database Test Note"), source |-> "import",
       content_md |-> Text("Content")],
      [title |-> Text("Meeting Note"), source |-> "meeting", content_md |-> Text("# Meeting"),
       transcript_text |-> Some(Text("John: We need")),
       summary_text |-> Some(Text("Meeting covered")),
       entities |-> [people |-> <<Text("John"), Text("Jane")>>,
                     topics |-> <<Text("timeline")>>]],
      [title |-> Text("Null Note"), source |-> "manual", content_md |-> Text("x"),
       transcript_text |-> Null, summary_text |-> Null] }

NoEntities == [key \in {} |-> <<>>]

\* The values createNote inserts: the fields of the input, the omitted
\* transcript_text and summary_text as null and the omitted entities as {}.
NoteValues(input) ==
    [workspace_id |-> input.workspace_id,
     title |-> input.title,
     source |-> input.source,
     content_md |-> input.content_md,
     transcript_text |-> IF Has(input, "transcript_text") THEN input.transcript_text ELSE Null,
     summary_text |-> IF Has(input, "summary_text") THEN input.summary_text ELSE Null,
     entities |-> IF Has(input, "entities") THEN input.entities ELSE NoEntities,
     created_by |-> input.created_by]

\* createNote: one insert into notesTable; the stored row is returned, an
\* error of the insert is thrown on.
CreateNote(c) ==
    /\ Free(c)
    /\ \E ws \in Ids(workspaces) \cup {NoSuchId}, creator \in Ids(users) \cup {NoSuchId},
          fields \in NoteInputs :
        LET input == [key \in DOMAIN fields \cup {"workspace_id", "created_by"} |->
                        IF key = "workspace_id" THEN ws
                        ELSE IF key = "created_by" THEN creator ELSE fields[key]]
            call == [pc |-> "run", op |-> "createNote", input |-> input]
            values == NoteValues(input)
            row == NoteRow(values)
        IN  IF NoteInsertError(values) # Null
            THEN /\ notes' = notes
                 /\ response' = Reject(call, <<NoteInsertError(values)[1]>>)
            ELSE /\ Len(notes) < MaxNotes
                 /\ notes' = InsertedNotes(row)
                 /\ response' = Resolve(call, row)
    /\ UNCHANGED <<users, workspaces, agent_events, tasks, reminders, now, calls,
                   transcript, summary, entities, extracted_actions>>

\* ------------------------------------------------------------- specification
Init ==
    /\ users = <<>>
    /\ workspaces = <<>>
    /\ agent_events = <<>>
    /\ tasks = <<>>
    /\ now = 0
    /\ calls = [c \in Slots |-> IdleCall]
    /\ response = NoResponse
    /\ transcript = <<>>
    /\ summary = Null
    /\ notes = <<>>
    /\ reminders = <<>>
    /\ entities = Null
    /\ extracted_actions = Null

Next ==
    \/ CreateUser
    \/ CreateWorkspace
    \/ \E c \in Slots : AgentPropose(c)
    \/ \E c \in Slots : ConfirmSelect(c)
    \/ \E c \in Slots : ConfirmUpdateRejected(c)
    \/ \E c \in Slots : ConfirmInsertTask(c)
    \/ \E c \in Slots : ConfirmUpdate(c)

Spec == Init /\ [][Next]_vars

\* The store as the agentConfirm tests set it up: a user, a workspace and one
\* event row inserted directly, in any status of the enum, without output.
InitSeeded ==
    /\ users = <<[id |-> 1]>>
    /\ workspaces = <<[id |-> 1, owner_id |-> 1]>>
    /\ \E p \in Proposals, st \in AgentEventStatus :
        agent_events = <<[id |-> 1, workspace_id |-> 1, agent |-> p.agent,
                          action |-> p.action, input |-> JsonRoundTrip(p.input),
                          output |-> Null, status |-> st, created_at |-> 0]>>
    /\ tasks = <<>>
    /\ now = 0
    /\ calls = [c \in Slots |-> IdleCall]
    /\ response = NoResponse
    /\ transcript = <<>>
    /\ summary = Null
    /\ notes = <<>>
    /\ reminders = <<>>
    /\ entities = Null
    /\ extracted_actions = Null

NextSeeded ==
    \/ CreateWorkspace
    \/ \E c \in Slots : AgentPropose(c)
    \/ \E c \in Slots : ConfirmSelect(c)
    \/ \E c \in Slots : ConfirmUpdateRejected(c)
    \/ \E c \in Slots : ConfirmInsertTask(c)
    \/ \E c \in Slots : ConfirmUpdate(c)

SpecSeeded == InitSeeded /\ [][NextSeeded]_vars

\* The transcript processor on every transcript up to MaxLen characters.
InitSummary ==
    /\ users = <<>>
    /\ workspaces = <<>>
    /\ agent_events = <<>>
    /\ tasks = <<>>
    /\ now = 0
    /\ calls = [c \in Slots |-> IdleCall]
    /\ response = NoResponse
    /\ transcript \in Transcripts
    /\ summary = Null
    /\ notes = <<>>
    /\ reminders = <<>>
    /\ entities = Null
    /\ extracted_actions = Null

NextSummary == GenerateSummary

SpecSummary == InitSummary /\ [][NextSummary]_vars


\* ------------------------------------------------------------------- claims
Row(table, id) == Returning(table, id)[1]

Proposed == response.op = "agentPropose"
Confirmed == response.op = "agentConfirm"
Returned == response.outcome = "returned"
Thrown == response.outcome = "thrown"

\* Some piece of the message is the given text.
Mentions(message, text) == \E i \in 1..Len(message) : message[i] = text

InFlight(c) == calls[c].pc # "idle"

C3_ConfirmNotAwaitingFails ==
    [][/\ (response'.op = "agentConfirm" /\ response'.outcome = "thrown"
                /\ response'.input.event_id \in Ids(agent_events))
            => /\ Row(agent_events, response'.input.event_id).status
                    # "awaiting_confirmation"
               /\ Mentions(response'.message, " is not awaiting confirmation (current status: ")
               /\ Mentions(response'.message,
                           Row(agent_events, response'.input.event_id).status)
               /\ agent_events' = agent_events
               /\ tasks' = tasks
       /\ \A c \in Slots :
            (~InFlight(c) /\ calls'[c].pc # "idle")
            => /\ calls'[c].input.event_id \in Ids(agent_events)
               /\ Row(agent_events, calls'[c].input.event_id).status
                    = "awaiting_confirmation"]_vars

C3_Witness ==
    /\ Confirmed /\ Thrown
    /\ ~response.input.approved
    /\ Mentions(response.message, "draft")

\* C4: agentConfirm on an event_id that references no event throws a
\* "not found" error, whatever approved is, starts no write and changes no
\* event and no task.
C4_ConfirmUnknownEventFails ==
    [][/\ (response'.op = "agentConfirm"
                /\ response'.input.event_id \notin Ids(agent_events))
            => /\ response'.outcome = "thrown"
               /\ Mentions(response'.message, " not found")
               /\ agent_events' = agent_events
               /\ tasks' = tasks
       /\ \A c \in Slots :
            calls'[c].pc # "idle" => calls'[c].input.event_id \in Ids(agent_events)]_vars

C4_Witness ==
    /\ Confirmed /\ Thrown
    /\ response.input.event_id \notin Ids(agent_events)
    /\ ~response.input.approved
    /\ Len(agent_events) > 0

\* C5: agentConfirm(approved = false) on an event awaiting confirmation
\* never throws; it returns the event, stored in status error with the output
\* {rejected: true, rejected_at, reason: 'User rejected proposal'}, whatever
\* its action, and the response has no execution_result field.
C5_RejectionMarksError ==
    /\ \A c \in Slots :
        (InFlight(c) /\ ~calls[c].input.approved) => calls[c].pc = "update_rejected"
    /\ (Confirmed /\ ~response.input.approved /\ Thrown)
        => (\A i \in 1..Len(agent_events) :
                agent_events[i].id = response.input.event_id
                => agent_events[i].status # "awaiting_confirmation")
    /\ (Confirmed /\ ~response.input.approved /\ Returned)
        => LET ev == response.value.agent_event IN
            /\ DOMAIN response.value = {"agent_event"}
            /\ ev.id = response.input.event_id
            /\ ev = Row(agent_events, response.input.event_id)
            /\ ev.status = "error"
            /\ ev.output # Null
            /\ DOMAIN ev.output[1] = {"rejected", "rejected_at", "reason"}
            /\ ev.output[1].rejected = JBool(TRUE)
            /\ TypeOf(ev.output[1].rejected_at) = "string"
            /\ ev.output[1].reason = JStr("User rejected proposal")

C5_Witness ==
    /\ Confirmed /\ Returned /\ ~response.input.approved
    /\ response.value.agent_event.action # "create_task"

\* The task a create_task confirmation would insert is accepted by the store:
\* the event's input has a title and names an existing workspace.
ValidTaskFields(eventInput) ==
    /\ Has(eventInput, "title")
    /\ Has(eventInput, "workspace_id")
    /\ ValueOf(eventInput["workspace_id"]) \in Ids(workspaces)

\* The approved confirmation in slot c takes its last step: it returns.
Returns(c) == calls[c].pc = "update" /\ calls'[c].pc = "idle"

C7_FailedCreateTaskIsAbsorbed ==
    [][\A c \in Slots :
        /\ (calls[c].pc = "insert_task" /\ calls'[c] # calls[c]
                /\ Has(calls[c].existingEvent.input, "workspace_id")
                /\ ValueOf(calls[c].existingEvent.input["workspace_id"])
                        \notin Ids(workspaces))
            => /\ tasks' = tasks
               /\ calls'[c].pc = "update"
               /\ DOMAIN calls'[c].executionResult = {"success", "error"}
               /\ calls'[c].executionResult.success = JBool(FALSE)
        /\ (Returns(c) /\ Has(calls[c].executionResult, "error"))
            => /\ tasks' = tasks
               /\ response'.outcome = "returned"
               /\ response'.value.execution_result = calls[c].executionResult
               /\ response'.value.agent_event = Row(agent_events', calls[c].input.event_id)
               /\ response'.value.agent_event.status = "error"
               /\ DOMAIN response'.value.agent_event.output[1]
                    = {"approved", "approved_at", "execution_error"}
               /\ response'.value.agent_event.output[1].approved = JBool(TRUE)
               /\ response'.value.agent_event.output[1].execution_error
                    = calls[c].executionResult.error]_vars

C7_Witness ==
    /\ Confirmed /\ Returned /\ response.input.approved
    /\ Has(response.value.execution_result, "error")
    /\ ValueOf(response.value.agent_event.input["workspace_id"]) = NoSuchId
    /\ Len(tasks) = 1

\* C8: an approved confirmation of an event whose action is not create_task
\* creates no task and returns with the event executed, output.executed_action
\* equal to the action, and the execution_result {success: true,
\* message: 'Action <action> executed successfully'}.
C8_ApprovedOtherActionExecutes ==
    [][\A c \in Slots :
        (calls'[c] # calls[c]
            /\ (IF InFlight(c) THEN calls[c] ELSE calls'[c]).input.approved
            /\ (IF InFlight(c) THEN calls[c] ELSE calls'[c]).existingEvent.action
                    # "create_task")
        => /\ tasks' = tasks
           /\ calls'[c].pc \in {"update", "idle"}
           /\ Returns(c) =>
                LET action == calls[c].existingEvent.action
                    ev == response'.value.agent_event
                IN  /\ response'.outcome = "returned"
                    /\ ev = Row(agent_events', calls[c].input.event_id)
                    /\ ev.status = "executed"
                    /\ ev.output[1].executed_action = JStr(action)
                    /\ DOMAIN response'.value.execution_result = {"success", "message"}
                    /\ response'.value.execution_result.success = JBool(TRUE)
                    /\ ValueOf(response'.value.execution_result.message)
                        = <<"Action ", action, " executed successfully">>]_vars

C8_Witness ==
    /\ Confirmed /\ Returned /\ response.input.approved
    /\ response.value.agent_event.action = "create_event"
    /\ response.value.agent_event.status = "executed"

\* C9: executed and error are terminal: no step changes an event whose
\* status is executed or error.
C9_TerminalStatesNeverChange ==
    [][\A e \in 1..Len(agent_events) :
        agent_events[e].status \in {"executed", "error"}
        => agent_events'[e] = agent_events[e]]_vars


\* The pieces of a non-empty summary between the heading and the word count.
Body(r) == SubSeq(r, 2, Len(r) - 3)
Annotation(r) == SubSeq(r, Len(r) - 2, Len(r))

\* The words of a transcript: its maximal runs of non-whitespace characters.
WordCount(t) ==
    Cardinality({i \in 1..Len(t) :
        t[i] \notin Whitespace /\ (i = 1 \/ t[i - 1] \in Whitespace)})

\* C10 as stated: the empty transcript gives 'Meeting transcript processed.';
\* every non-empty transcript gives a summary that starts with
\* 'Meeting summary: ', whose sentence ends in exactly one period, and that
\* ends with ' (<N> words transcribed)', N being the number of words.
C10_SummaryOfEveryNonEmptyTranscript ==
    summary # Null =>
        LET r == summary[1] IN
        IF transcript = <<>> THEN r = <<"Meeting transcript processed.">>
        ELSE /\ Len(r) >= 5
             /\ r[1] = "Meeting summary: "
             /\ EndsWith(Body(r), ".")
             /\ ~EndsWith(SubSeq(Body(r), 1, Len(Body(r)) - 1), ".")
             /\ Annotation(r) = <<" (", ToString(WordCount(transcript)), " words transcribed)">>

\* A '. ' separator starts at position k of t.
SeparatorAt(t, k) == k < Len(t) /\ t[k] = "." /\ t[k + 1] = " "

\* t has no sentence-like content: nothing but whitespace and separators.
Blank(t) == \A k \in 1..Len(t) : t[k] \in Whitespace \/ SeparatorAt(t, k)

\* t[i..j] is the first '. '-delimited segment of t that is not blank, without
\* the whitespace around it.
FirstSentenceAt(t, i, j) ==
    /\ t[i] \notin Whitespace
    /\ t[j] \notin Whitespace
    /\ Blank(SubSeq(t, 1, i - 1))
    /\ \A k \in i..j : ~SeparatorAt(t, k)
    /\ \E m \in j..Len(t) :
        /\ \A k \in (j + 1)..m : t[k] \in Whitespace
        /\ m = Len(t) \/ SeparatorAt(t, m + 1)

\* C10 as amended: a transcript without sentence-like content (the empty one
\* included) gives 'Meeting transcript processed.'; every other transcript
\* gives 'Meeting summary: ', then its first non-blank '. '-delimited segment,
\* trimmed and followed by a period unless it already ends in one, then
\* ' (<N> words transcribed)', N being one more than the number of spaces.
C10_SummaryOfTranscript ==
    summary # Null =>
        LET r == summary[1]
            t == transcript
            spaces == Cardinality({k \in 1..Len(t) : t[k] = " "})
        IN  IF Blank(t) THEN r = <<"Meeting transcript processed.">>
            ELSE /\ Len(r) >= 5
                 /\ r[1] = "Meeting summary: "
                 /\ Annotation(r) = <<" (", ToString(spaces + 1), " words transcribed)">>
                 /\ \E i \in 1..Len(t) : \E j \in i..Len(t) :
                        /\ FirstSentenceAt(t, i, j)
                        /\ Body(r) = IF t[j] = "." THEN SubSeq(t, i, j)
                                     ELSE Append(SubSeq(t, i, j), ".")

C10_Witness ==
    /\ summary # Null
    /\ Len(transcript) = MaxLen
    /\ transcript[1] = " "
    /\ transcript[2] = "a"
    /\ transcript[MaxLen] = "."
    /\ summary[1][1] = "Meeting summary: "

\* The entity and action extraction on every meeting transcript.
InitExtract ==
    /\ users = <<>>
    /\ workspaces = <<>>
    /\ agent_events = <<>>
    /\ tasks = <<>>
    /\ notes = <<>>
    /\ reminders = <<>>
    /\ now = 0
    /\ calls = [c \in Slots |-> IdleCall]
    /\ response = NoResponse
    /\ transcript \in MeetingTranscripts
    /\ summary = Null
    /\ entities = Null
    /\ extracted_actions = Null

NextExtract == ExtractEntities \/ ExtractActions

SpecExtract == InitExtract /\ [][NextExtract]_vars

\* C11: for every transcript extractEntities returns the four keys people,
\* dates, decisions and risks, risks is the empty list, none of the people,
\* decisions and dates lists holds an entry twice, and there are at most 5
\* people and at most 3 decisions.
NoDuplicates(xs) == \A i, j \in 1..Len(xs) : xs[i] = xs[j] => i = j

C11_EntitiesDeduplicatedAndCapped ==
    entities # Null =>
        LET e == entities[1]
        IN  /\ DOMAIN e = {"people", "dates", "decisions", "risks"}
            /\ e.risks = <<>>
            /\ NoDuplicates(e.people)
            /\ NoDuplicates(e.dates)
            /\ NoDuplicates(e.decisions)
            /\ Len(e.people) <= 5
            /\ Len(e.decisions) <= 3

\* The sentences of the transcript that name an action, in transcript order.
ActionSentences == SelectSeq(Sentences(transcript), LAMBDA x : ContainsKeyword(x, actionKeywords))

\* C12: extractActions returns at most 3 items, one for each of the first
\* action sentences; every title has at most 100 characters; the title is
\* the sentence itself unless the sentence has more than 100 characters, and
\* then it is the first 97 characters of the sentence followed by '...';
\* due_at is never populated.
C12_ActionsCappedAndTruncated ==
    extracted_actions # Null =>
        LET a == extracted_actions[1]
        IN  /\ Len(a) <= 3
            /\ Len(a) <= Len(ActionSentences)
            /\ Len(ActionSentences) <= 3 => Len(a) = Len(ActionSentences)
            /\ \A k \in 1..Len(a) :
                LET sentence == ActionSentences[k]
                IN  /\ Len(a[k].title) <= 100
                    /\ a[k].due_at = Undefined
                    /\ a[k].title # sentence => Len(sentence) > 100
                    /\ Len(sentence) > 100 =>
                        /\ Len(a[k].title) = 100
                        /\ SubSeq(a[k].title, 1, 97) = SubSeq(sentence, 1, 97)
                        /\ SubSeq(a[k].title, 98, 100) = <<".", ".", ".">>

C12_Witness ==
    /\ extracted_actions # Null
    /\ Len(extracted_actions[1]) = 3
    /\ Len(ActionSentences) = 4
    /\ Len(ActionSentences[1]) = 100
    /\ extracted_actions[1][1].title = ActionSentences[1]
    /\ Len(ActionSentences[2]) > 100
    /\ extracted_actions[1][2].title # ActionSentences[2]

\* C13: the priorities of the extracted actions are positional: the item of
\* the first action sentence of the transcript is 'high', that of the second
\* 'med', that of the third 'low'.
C13_PrioritiesArePositional ==
    extracted_actions # Null =>
        LET a == extracted_actions[1]
        IN  \A k \in 1..Len(a) :
                /\ a[k].priority = <<"high", "med", "low">>[k]
                /\ LET n == IF Len(ActionSentences[k]) < 97 THEN Len(ActionSentences[k]) ELSE 97
                   IN  SubSeq(a[k].title, 1, n) = SubSeq(ActionSentences[k], 1, n)

C13_Witness ==
    /\ extracted_actions # Null
    /\ Len(extracted_actions[1]) = 3
    /\ extracted_actions[1][1].title # extracted_actions[1][2].title
    /\ extracted_actions[1][2].title # extracted_actions[1][3].title
    /\ extracted_actions[1][1].title # extracted_actions[1][3].title

\* The store as the finalizeMeeting tests set it up (a user and a workspace),
\* with a task, a reminder for it and an agent event already in it.
InitMeeting ==
    /\ users = <<[id |-> 1]>>
    /\ workspaces = <<[id |-> 1, owner_id |-> 1]>>
    /\ agent_events = <<[id |-> 1, workspace_id |-> 1, agent |-> "calendar_agent",
                         action |-> "create_event", input |-> [title |-> JStr("Sync")],
                         output |-> Null, status |-> "awaiting_confirmation",
                         created_at |-> 0]>>
    /\ tasks = <<[id |-> 1, workspace_id |-> 1, title |-> "Write report",
                  description |-> Null, status |-> "todo", priority |-> "med",
                  due_at |-> Null, assignee_id |-> Null, linked_note_id |-> Null,
                  created_at |-> 0, updated_at |-> 0]>>
    /\ reminders = <<[id |-> 1, task_id |-> 1, remind_at |-> 1, method |-> "email",
                      status |-> "scheduled", created_at |-> 0]>>
    /\ notes = <<>>
    /\ now = 0
    /\ calls = [c \in Slots |-> IdleCall]
    /\ response = NoResponse
    /\ transcript = <<>>
    /\ summary = Null
    /\ entities = Null
    /\ extracted_actions = Null

NextMeeting ==
    \/ CreateWorkspace
    \/ \E c \in Slots : FinalizeMeeting(c)

SpecMeeting == InitMeeting /\ [][NextMeeting]_vars

Finalized == response.op = "finalizeMeeting"

\* The index of the piece in the text (0 when the text does not hold it
\* exactly once).
IndexOf(text, piece) ==
    LET found == {i \in 1..Len(text) : text[i] = piece}
    IN  IF Cardinality(found) = 1 THEN CHOOSE i \in found : TRUE ELSE 0

\* C14: after every successful finalizeMeeting call the content_md of the
\* stored note holds the title heading and the headers Summary, Transcript,
\* Key People, Decisions Made and Action Items in this order, and each of the
\* last three sections is 'None identified' exactly when the list it renders
\* (people, decisions, extracted actions) is empty.
C14_NoteHasSixSectionsInOrder ==
    (Finalized /\ Returned) =>
        LET md == Row(notes, response.value.note.id).content_md
            title == IndexOf(md, "# ")
            summaryAt == IndexOf(md, "\n\n## Summary\n")
            transcriptAt == IndexOf(md, "\n\n## Transcript\n")
            people == IndexOf(md, "\n\n## Key People\n")
            decisions == IndexOf(md, "\n\n## Decisions Made\n")
            actions == IndexOf(md, "\n\n## Action Items\n")
        IN  /\ title = 1
            /\ SubSeq(md, 2, Len(response.input.title) + 1) = response.input.title
            /\ title < summaryAt /\ summaryAt < transcriptAt /\ transcriptAt < people
            /\ people < decisions /\ decisions < actions /\ actions < Len(md)
            /\ (md[people + 1] = "None identified") <=> (response.value.entities.people = <<>>)
            /\ (md[people + 1] = "None identified") => decisions = people + 2
            /\ (md[decisions + 1] = "None identified")
                    <=> (response.value.entities.decisions = <<>>)
            /\ (md[decisions + 1] = "None identified") => actions = decisions + 2
            /\ (md[actions + 1] = "None identified")
                    <=> (response.value.extracted_actions = <<>>)
            /\ (md[actions + 1] = "None identified") => Len(md) = actions + 1

C14_Witness ==
    /\ Finalized /\ Returned
    /\ response.input.workspace_id = 2
    /\ response.value.entities.people = <<>>
    /\ response.value.entities.decisions # <<>>
    /\ Len(response.value.extracted_actions) = 3

\* C15: every successful finalizeMeeting call stores one note with the id of
\* the returned note, the source 'meeting', the input's workspace_id,
\* created_by, title and transcript, and the summary and the entities that
\* the call returns.
C15_NoteCarriesInputAndResults ==
    (Finalized /\ Returned) =>
        LET stored == Returning(notes, response.value.note.id)
        IN  /\ Len(stored) = 1
            /\ stored[1].source = "meeting"
            /\ stored[1].transcript_text = Some(response.input.transcript)
            /\ stored[1].summary_text = Some(response.value.summary)
            /\ stored[1].entities = response.value.entities
            /\ stored[1].workspace_id = response.input.workspace_id
            /\ stored[1].created_by = response.input.created_by
            /\ stored[1].title = response.input.title
            /\ response.value.note = stored[1]

C15_Witness ==
    /\ Finalized /\ Returned
    /\ response.value.note.id = 2
    /\ response.input.workspace_id = 2
    /\ response.value.entities.dates # <<>>

\* C16: a successful finalizeMeeting call adds exactly one note (the notes
\* stored before stay as they are) and leaves the tasks, the reminders and
\* the agent events unchanged, however many actions it extracts.
C16_FinalizeAddsOnlyOneNote ==
    [][(response'.op = "finalizeMeeting" /\ response'.outcome = "returned")
        => /\ Len(notes') = Len(notes) + 1
           /\ SubSeq(notes', 1, Len(notes)) = notes
           /\ tasks' = tasks
           /\ reminders' = reminders
           /\ agent_events' = agent_events]_vars

C16_Witness ==
    /\ Finalized /\ Returned
    /\ Len(response.value.extracted_actions) = 3
    /\ Len(notes) = 2
    /\ tasks # <<>> /\ reminders # <<>> /\ agent_events # <<>>

\* C17: finalizeMeeting with a workspace_id that references no workspace or
\* a created_by that references no user throws the store's foreign-key
\* violation and stores no note.
C17_FinalizeUnknownReferenceFails ==
    [][(response'.op = "finalizeMeeting"
            /\ (response'.input.workspace_id \notin Ids(workspaces)
                \/ response'.input.created_by \notin Ids(users)))
        => /\ response'.outcome = "thrown"
           /\ Mentions(response'.message, "violates foreign key constraint")
           /\ notes' = notes]_vars

C17_Witness ==
    /\ Finalized /\ Thrown
    /\ response.input.workspace_id \in Ids(workspaces)
    /\ response.input.created_by \notin Ids(users)
    /\ notes # <<>>

\* The store as the getAgentEvents tests set it up: a user, the workspaces
\* and up to MaxEvents events inserted directly, in any status, at instants
\* that do not decrease.
EventSeeds ==
    UNION {[1..n -> [workspace_id : 1..MaxWorkspaces, status : AgentEventStatus,
                     created_at : 0..MaxTime]] : n \in 0..MaxEvents}

InitEvents ==
    /\ users = <<[id |-> 1]>>
    /\ workspaces = [w \in 1..MaxWorkspaces |-> [id |-> w, owner_id |-> 1]]
    /\ \E seed \in EventSeeds :
        /\ \A i, j \in 1..Len(seed) : i < j => seed[i].created_at <= seed[j].created_at
        /\ agent_events =
            [i \in 1..Len(seed) |->
                [id |-> i, workspace_id |-> seed[i].workspace_id, agent |-> "calendar-agent",
                 action |-> "create_event", input |-> [title |-> JStr("Test Meeting")],
                 output |-> Some([event_id |-> JStr("evt_123")]),
                 status |-> seed[i].status, created_at |-> seed[i].created_at]]
    /\ tasks = <<>>
    /\ notes = <<>>
    /\ reminders = <<>>
    /\ now = MaxTime
    /\ calls = [c \in Slots |-> IdleCall]
    /\ response = NoResponse
    /\ transcript = <<>>
    /\ summary = Null
    /\ entities = Null
    /\ extracted_actions = Null

NextEvents == \E c \in Slots : GetAgentEvents(c)

SpecEvents == InitEvents /\ [][NextEvents]_vars

\* C18: getAgentEvents(workspaceId, status?) never throws and returns each
\* event of the workspace (with the given status, when one is given) exactly
\* once and no other row, the later created first; for a workspace without
\* events that is the empty list; the call changes nothing in the store.
C18_EventsOfWorkspaceNewestFirst ==
    [][response'.op = "getAgentEvents" =>
        /\ response'.outcome = "returned"
        /\ LET results == response'.value
               workspaceId == response'.input.workspaceId
               status == response'.input.status
               wanted == {i \in 1..Len(agent_events) :
                            /\ agent_events[i].workspace_id = workspaceId
                            /\ status # Null => agent_events[i].status = status[1]}
           IN  /\ Len(results) = Cardinality(wanted)
               /\ \A i \in wanted : \E k \in 1..Len(results) : results[k] = agent_events[i]
               /\ \A k \in 1..Len(results) : \E i \in wanted : results[k] = agent_events[i]
               /\ \A k \in 1..(Len(results) - 1) :
                    results[k].created_at >= results[k + 1].created_at
               /\ (\A i \in 1..Len(agent_events) : agent_events[i].workspace_id # workspaceId)
                    => results = <<>>
        /\ UNCHANGED <<users, workspaces, agent_events, tasks, notes, reminders>>]_vars

C18_Witness ==
    /\ response.op = "getAgentEvents" /\ Returned
    /\ response.input.status # Null
    /\ Len(response.value) = 2
    /\ response.value[1].id = 2
    /\ response.value[1].created_at > response.value[2].created_at

\* The store as the getUpcomingReminders tests set it up: a user, the
\* workspaces with one task each and up to MaxReminders reminders inserted
\* directly, for any task, in any status, before, at and after the clock.
ReminderSeeds ==
    UNION {[1..n -> [task_id : 1..MaxWorkspaces, status : ReminderStatus,
                     remind_at : 0..(MaxTime + 2)]] : n \in 0..MaxReminders}

InitReminders ==
    /\ users = <<[id |-> 1]>>
    /\ workspaces = [w \in 1..MaxWorkspaces |-> [id |-> w, owner_id |-> 1]]
    /\ agent_events = <<>>
    /\ tasks = [w \in 1..MaxWorkspaces |->
                    [id |-> w, workspace_id |-> w, title |-> "Test Task",
                     description |-> Null, status |-> "todo", priority |-> "med",
                     due_at |-> Null, assignee_id |-> Null, linked_note_id |-> Null,
                     created_at |-> 0, updated_at |-> 0]]
    /\ notes = <<>>
    /\ \E seed \in ReminderSeeds :
        reminders = [i \in 1..Len(seed) |->
                        [id |-> i, task_id |-> seed[i].task_id,
                         remind_at |-> seed[i].remind_at, method |-> "email",
                         status |-> seed[i].status, created_at |-> 0]]
    /\ now = MaxTime
    /\ calls = [c \in Slots |-> IdleCall]
    /\ response = NoResponse
    /\ transcript = <<>>
    /\ summary = Null
    /\ entities = Null
    /\ extracted_actions = Null

NextReminders == \E c \in Slots : GetUpcomingReminders(c)

SpecReminders == InitReminders /\ [][NextReminders]_vars

\* C19: getUpcomingReminders(workspaceId, limit?) returns only reminders of
\* tasks of the workspace that are scheduled and due strictly after the call's
\* instant, the earlier first, and as many of the earliest of them as the
\* limit allows: limit entries, or 10 when no limit is given.
C19_UpcomingRemindersUpToLimit ==
    (response.op = "getUpcomingReminders") =>
        /\ Returned
        /\ LET results == response.value
               upcoming == {i \in 1..Len(reminders) :
                                /\ tasks[reminders[i].task_id].workspace_id
                                        = response.input.workspaceId
                                /\ reminders[i].remind_at > response.input.now
                                /\ reminders[i].status = "scheduled"}
               allowed == IF response.input.limit = Null THEN 10 ELSE response.input.limit[1]
           IN  /\ \A k \in 1..Len(results) : \E i \in upcoming : results[k] = reminders[i]
               /\ \A k \in 1..(Len(results) - 1) :
                    results[k].remind_at <= results[k + 1].remind_at
               /\ Len(results) = IF Cardinality(upcoming) < allowed
                                 THEN Cardinality(upcoming) ELSE allowed

\* The store as the updateTask tests set it up: a user, a workspace, a note
\* and the tasks, created before the present instant.
InitTasks ==
    /\ users = <<[id |-> 1]>>
    /\ workspaces = <<[id |-> 1, owner_id |-> 1]>>
    /\ agent_events = <<>>
    /\ tasks = [i \in 1..MaxTasks |->
                    [id |-> i, workspace_id |-> 1, title |-> "Original Task",
                     description |-> Some("Original description"), status |-> "todo",
                     priority |-> "low", due_at |-> Some(ParseDate(DueAtText)),
                     assignee_id |-> Null, linked_note_id |-> Null,
                     created_at |-> 0, updated_at |-> 0]]
    /\ notes = <<[id |-> 1, workspace_id |-> 1, title |-> Text("Test Note"),
                  source |-> "manual", content_md |-> Text("Test content"),
                  transcript_text |-> Null, summary_text |-> Null,
                  entities |-> [x \in {} |-> <<>>], created_by |-> 1,
                  created_at |-> 0, updated_at |-> 0]>>
    /\ reminders = <<>>
    /\ now = MaxTime
    /\ calls = [c \in Slots |-> IdleCall]
    /\ response = NoResponse
    /\ transcript = <<>>
    /\ summary = Null
    /\ entities = Null
    /\ extracted_actions = Null

NextTasks ==
    \/ \E c \in Slots : UpdateTaskSelect(c)
    \/ \E c \in Slots : UpdateTaskUpdate(c)

SpecTasks == InitTasks /\ [][NextTasks]_vars

\* C20: a successful updateTask sets, in the task of the given id, every
\* field its input gives to the given value (null when null is given),
\* changes besides these only updated_at, to the present instant, and leaves
\* every other task as it was; for an id that references no task it throws
\* 'Task with id <id> not found'; a call that does not succeed changes no
\* task.
C20_UpdateTouchesOnlyGivenFields ==
    [][/\ (response'.op = "updateTask" /\ response'.outcome = "returned") =>
            LET input == response'.input
                given == DOMAIN input \ {"id"}
            IN  /\ Len(tasks') = Len(tasks)
                /\ \A i \in 1..Len(tasks) :
                    IF tasks[i].id = input.id
                    THEN /\ \A key \in given : tasks'[i][key] = input[key]
                         /\ \A key \in DOMAIN tasks[i] \ (given \cup {"updated_at"}) :
                                tasks'[i][key] = tasks[i][key]
                         /\ tasks'[i].updated_at = now
                         /\ DOMAIN tasks'[i] = DOMAIN tasks[i]
                         /\ response'.value = tasks'[i]
                    ELSE tasks'[i] = tasks[i]
       /\ (response'.op = "updateTask" /\ response'.input.id \notin Ids(tasks)) =>
            /\ response'.outcome = "thrown"
            /\ response'.message
                    = <<"Task with id ", ToString(response'.input.id), " not found">>
       /\ ~(response'.op = "updateTask" /\ response'.outcome = "returned") => tasks' = tasks
      ]_vars

C20_Witness ==
    /\ response.op = "updateTask" /\ Returned
    /\ "description" \in DOMAIN response.input
    /\ response.input.description = Null
    /\ response.value.updated_at > response.value.created_at
    /\ response.value.title = "Only Title Updated"
    /\ \E i \in 1..Len(tasks) : tasks[i].id # response.input.id /\ tasks[i].assignee_id # Null

\* The agent lifecycle with both producers of events: agentPropose and
\* createCalendarDraft, and agentConfirm, from the empty store.
NextAgents ==
    \/ CreateUser
    \/ CreateWorkspace
    \/ \E c \in Slots : AgentPropose(c)
    \/ \E c \in Slots : CreateCalendarDraft(c)
    \/ \E c \in Slots : ConfirmSelect(c)
    \/ \E c \in Slots : ConfirmUpdateRejected(c)
    \/ \E c \in Slots : ConfirmInsertTask(c)
    \/ \E c \in Slots : ConfirmUpdate(c)

SpecAgents == Init /\ [][NextAgents]_vars

\* C21: createCalendarDraft for an existing workspace adds exactly one event,
\* returned and stored with agent 'SchedulerAgent', action
\* 'create_calendar_event', status awaiting_confirmation, a null output and an
\* input that carries the supplied title, times (as their JSON text) and
\* attendees; for a workspace that does not exist it throws a foreign-key
\* violation and adds no event.
C21_CalendarDraftStoresAwaitingEvent ==
    [][(response'.op = "createCalendarDraft") =>
        LET input == response'.input IN
        IF ValueOf(input.workspace_id) \in Ids(workspaces)
        THEN /\ response'.outcome = "returned"
             /\ Len(agent_events') = Len(agent_events) + 1
             /\ SubSeq(agent_events', 1, Len(agent_events)) = agent_events
             /\ LET ev == agent_events'[Len(agent_events')] IN
                /\ response'.value.draft_event = ev
                /\ ev.id \notin Ids(agent_events)
                /\ ev.workspace_id = ValueOf(input.workspace_id)
                /\ ev.agent = "SchedulerAgent"
                /\ ev.action = "create_calendar_event"
                /\ ev.status = "awaiting_confirmation"
                /\ ev.output = Null
                /\ DOMAIN ev.input = DOMAIN input
                /\ ev.input.title = input.title
                /\ ev.input.start_time = JStr(DateToJSON(ValueOf(input.start_time)))
                /\ ev.input.end_time = JStr(DateToJSON(ValueOf(input.end_time)))
                /\ Has(input, "attendees") => ev.input.attendees = input.attendees
        ELSE /\ response'.outcome = "thrown"
             /\ response'.message = <<ForeignKeyViolation>>
             /\ agent_events' = agent_events]_vars

C21_Witness ==
    /\ response.op = "createCalendarDraft" /\ Returned
    /\ Has(response.input, "attendees")
    /\ Len(agent_events) = 2
    /\ agent_events[1].agent # "SchedulerAgent"

\* The store as the createNote tests set it up: a user and a workspace.
InitNotes ==
    /\ users = <<[id |-> 1]>>
    /\ workspaces = <<[id |-> 1, owner_id |-> 1]>>
    /\ agent_events = <<>>
    /\ tasks = <<>>
    /\ notes = <<>>
    /\ reminders = <<>>
    /\ now = 0
    /\ calls = [c \in Slots |-> IdleCall]
    /\ response = NoResponse
    /\ transcript = <<>>
    /\ summary = Null
    /\ entities = Null
    /\ extracted_actions = Null

NextNotes ==
    \/ CreateWorkspace
    \/ \E c \in Slots : CreateNote(c)

SpecNotes == InitNotes /\ [][NextNotes]_vars

Selects(c) == ~InFlight(c) /\ calls'[c].pc # "idle"

\* C23: agentConfirm reads the status in one store operation and writes in
\* later ones that neither lock nor test it: the select writes nothing; a call
\* past the check inserts its task and writes its status whatever the status
\* of the stored event has become meanwhile.  Two approved calls on one
\* create_task event can therefore both insert a task (the witness).
C23_ConfirmWritesWithoutRecheck ==
    [][\A c \in Slots :
        /\ Selects(c) =>
            /\ agent_events' = agent_events
            /\ tasks' = tasks
            /\ calls'[c].existingEvent = Row(agent_events, calls'[c].input.event_id)
            /\ calls'[c].existingEvent.status = "awaiting_confirmation"
        /\ (calls[c].pc = "insert_task" /\ calls'[c] # calls[c]
                /\ ValidTaskFields(calls[c].existingEvent.input))
            => /\ Len(tasks') = Len(tasks) + 1
               /\ agent_events' = agent_events
        /\ (InFlight(c) /\ calls'[c].pc = "idle")
            => /\ Row(agent_events', calls[c].input.event_id).status
                    = (IF calls[c].pc = "update_rejected" THEN "error"
                       ELSE FinalStatus(calls[c].executionResult))
               /\ response'.outcome = "returned"]_vars

C23_Witness ==
    /\ Len(tasks) = 2
    /\ calls[1].pc = "update" /\ calls[2].pc = "update"
    /\ calls[1].input.event_id = calls[2].input.event_id
    /\ Has(calls[1].executionResult, "created_task_id")
    /\ Has(calls[2].executionResult, "created_task_id")
    /\ calls[1].executionResult.created_task_id # calls[2].executionResult.created_task_id
    /\ Row(agent_events, calls[1].input.event_id).status = "awaiting_confirmation"

\* The agent lifecycle with both producers, from the store of the agentConfirm
\* tests: one event row in any status of the enum.
NextAgentsSeeded ==
    \/ CreateWorkspace
    \/ \E c \in Slots : AgentPropose(c)
    \/ \E c \in Slots : CreateCalendarDraft(c)
    \/ \E c \in Slots : ConfirmSelect(c)
    \/ \E c \in Slots : ConfirmUpdateRejected(c)
    \/ \E c \in Slots : ConfirmInsertTask(c)
    \/ \E c \in Slots : ConfirmUpdate(c)

SpecAgentsSeeded == InitSeeded /\ [][NextAgentsSeeded]_vars

\* C24: no step creates an event in status draft, and the only changes of
\* an event's status are awaiting_confirmation -> executed and
\* awaiting_confirmation -> error (so no event moves into or out of draft).
C24_OnlyAwaitingEventsChangeStatus ==
    [][/\ Len(agent_events') >= Len(agent_events)
       /\ \A e \in 1..Len(agent_events') :
            IF e > Len(agent_events)
            THEN agent_events'[e].status # "draft"
            ELSE agent_events'[e].status # agent_events[e].status
                 => /\ agent_events[e].status = "awaiting_confirmation"
                    /\ agent_events'[e].status \in {"executed", "error"}]_vars

\* The create_task proposals whose confirmation is followed field by field:
\* the proposals of the tests, one whose input also carries a status, and
\* one whose optional fields are present and empty.
TaskProposals ==
    {p \in Proposals : p.action = "create_task"} \cup
    { [agent |-> "task_agent", action |-> "create_task",
       input |-> [workspace_id |-> JNum(1), title |-> JStr("Done Task"),
                  status |-> JStr("done"), priority |-> JStr("low")]],
      [agent |-> "task_agent", action |-> "create_task",
       input |-> [workspace_id |-> JNum(1), title |-> JStr("Empty Fields"),
                  description |-> JStr(""), priority |-> JStr(""), due_at |-> JStr("")]] }

\* The store after agentPropose has stored one of the create_task proposals
\* for a workspace.
InitTaskFields ==
    /\ users = <<[id |-> 1]>>
    /\ workspaces = [w \in 1..MaxWorkspaces |-> [id |-> w, owner_id |-> 1]]
    /\ \E p \in TaskProposals, ws \in 1..MaxWorkspaces :
        agent_events = <<[id |-> 1, workspace_id |-> ws, agent |-> p.agent,
                          action |-> p.action, input |-> JsonRoundTrip(p.input),
                          output |-> Null, status |-> "awaiting_confirmation",
                          created_at |-> 0]>>
    /\ tasks = <<>>
    /\ notes = <<>>
    /\ reminders = <<>>
    /\ now = 0
    /\ calls = [c \in Slots |-> IdleCall]
    /\ response = NoResponse
    /\ transcript = <<>>
    /\ summary = Null
    /\ entities = Null
    /\ extracted_actions = Null

NextTaskFields ==
    \/ \E c \in Slots : ConfirmSelect(c)
    \/ \E c \in Slots : ConfirmUpdateRejected(c)
    \/ \E c \in Slots : ConfirmInsertTask(c)
    \/ \E c \in Slots : ConfirmUpdate(c)

SpecTaskFields == InitTaskFields /\ [][NextTaskFields]_vars

\* The step is the task insert of the confirmation in slot c and adds a task.
InsertsTask(c) == calls[c].pc = "insert_task" /\ Len(tasks') = Len(tasks) + 1

\* C25 as stated: the task an approved create_task confirmation creates has
\* the workspace_id and title of the event's stored input, status todo,
\* priority input.priority or med when absent, description input.description
\* or null when absent, due_at parsed from input.due_at or null when absent,
\* and no assignee and no linked note.
C25_TaskFieldsOrDefaultsWhenAbsent ==
    [][\A c \in Slots : InsertsTask(c) =>
        LET eventInput == calls[c].existingEvent.input
            task == tasks'[Len(tasks')]
        IN  /\ task.workspace_id = ValueOf(eventInput.workspace_id)
            /\ task.title = ValueOf(eventInput.title)
            /\ task.status = "todo"
            /\ task.priority = (IF Has(eventInput, "priority")
                                THEN ValueOf(eventInput.priority) ELSE "med")
            /\ task.description = (IF Has(eventInput, "description")
                                   THEN Some(ValueOf(eventInput.description)) ELSE Null)
            /\ task.due_at = (IF Has(eventInput, "due_at")
                              THEN Some(ParseDate(ValueOf(eventInput.due_at))) ELSE Null)
            /\ task.assignee_id = Null
            /\ task.linked_note_id = Null]_vars

\* The field of the input is absent or empty.
AbsentOrEmpty(eventInput, key) == ~Has(eventInput, key) \/ eventInput[key] = JStr("")

\* C25 amended: as C25, with the defaults (med, null, null) taken also when
\* the field is present and empty.
C25_TaskFieldsOrDefaultsWhenEmpty ==
    [][\A c \in Slots : InsertsTask(c) =>
        LET eventInput == calls[c].existingEvent.input
            task == tasks'[Len(tasks')]
        IN  /\ SubSeq(tasks', 1, Len(tasks)) = tasks
            /\ task.workspace_id = ValueOf(eventInput.workspace_id)
            /\ task.title = ValueOf(eventInput.title)
            /\ task.status = "todo"
            /\ task.priority = (IF AbsentOrEmpty(eventInput, "priority")
                                THEN "med" ELSE ValueOf(eventInput.priority))
            /\ task.description = (IF AbsentOrEmpty(eventInput, "description")
                                   THEN Null ELSE Some(ValueOf(eventInput.description)))
            /\ task.due_at = (IF AbsentOrEmpty(eventInput, "due_at")
                              THEN Null ELSE Some(ParseDate(ValueOf(eventInput.due_at))))
            /\ task.assignee_id = Null
            /\ task.linked_note_id = Null]_vars

C25_Witness ==
    /\ Len(tasks) = 2
    /\ tasks[1].title = "Empty Fields" /\ tasks[1].description = Null
    /\ tasks[1].priority = "med" /\ tasks[1].due_at = Null
    /\ tasks[2].title = "Empty Fields"
    /\ \E c \in Slots : calls[c].pc = "update"

\* C26: a step of an agentConfirm call adds and removes no event, changes of
\* the event named by event_id nothing but status and output, and changes no
\* other event; a step of a call with approved = false, or on an event whose
\* action is not create_task, changes no task.
C26_ConfirmChangesOnlyStatusAndOutput ==
    [][\A c \in Slots :
        (calls'[c] # calls[c] \/ (response'.op = "agentConfirm" /\ calls' = calls)) =>
        LET call == IF calls'[c] # calls[c]
                    THEN (IF InFlight(c) THEN calls[c] ELSE calls'[c])
                    ELSE [input |-> response'.input,
                          existingEvent |-> [action |-> "none"]]
        IN  /\ Len(agent_events') = Len(agent_events)
            /\ \A e \in 1..Len(agent_events) :
                IF agent_events[e].id = call.input.event_id
                THEN /\ DOMAIN agent_events'[e] = DOMAIN agent_events[e]
                     /\ \A key \in DOMAIN agent_events[e] \ {"status", "output"} :
                            agent_events'[e][key] = agent_events[e][key]
                ELSE agent_events'[e] = agent_events[e]
            /\ (~call.input.approved \/ call.existingEvent.action # "create_task")
                => tasks' = tasks]_vars

C26_Witness ==
    /\ Confirmed /\ Returned /\ response.input.approved
    /\ Len(agent_events) = 2
    /\ response.input.event_id = 2
    /\ agent_events[2].status = "executed"
    /\ agent_events[2].action = "create_event"
    /\ agent_events[1].status = "awaiting_confirmation"
    /\ Len(tasks) = 0

\* C27: in every reachable state an executed event has an output with
\* approved = true and an executed_action, an event in error has an output
\* with rejected = true or with an execution_error, and every task_id of an
\* output is the id of a stored task; whenever agentConfirm returns an
\* execution_result, the returned event is the stored one and is executed
\* exactly when execution_result.success is true.
C27_StatusAgreesWithOutput ==
    /\ \A e \in 1..Len(agent_events) :
        LET ev == agent_events[e] IN
        /\ ev.status = "executed" =>
            /\ ev.output # Null
            /\ Has(ev.output[1], "approved") /\ ev.output[1].approved = JBool(TRUE)
            /\ Has(ev.output[1], "executed_action")
        /\ ev.status = "error" =>
            /\ ev.output # Null
            /\ \/ Has(ev.output[1], "rejected") /\ ev.output[1].rejected = JBool(TRUE)
               \/ Has(ev.output[1], "execution_error")
        /\ (ev.output # Null /\ Has(ev.output[1], "task_id")) =>
            ValueOf(ev.output[1].task_id) \in Ids(tasks)
    /\ (Confirmed /\ Returned /\ Has(response.value, "execution_result")) =>
        /\ response.value.agent_event = Row(agent_events, response.input.event_id)
        /\ (response.value.agent_event.status = "executed")
            = (response.value.execution_result.success = JBool(TRUE))
        /\ response.value.agent_event.status \in {"executed", "error"}

C27_Witness ==
    /\ Len(agent_events) = 2
    /\ agent_events[1].status = "executed" /\ Has(agent_events[1].output[1], "task_id")
    /\ agent_events[2].status = "error" /\ Has(agent_events[2].output[1], "execution_error")
    /\ Confirmed /\ Returned /\ response.input.event_id = 2

\* C28: the task an agentConfirm call creates belongs to the workspace of
\* the event it was confirmed from: the workspace_id of the task equals the
\* workspace_id of the event.
C28_TaskBelongsToWorkspaceOfEvent ==
    [][\A c \in Slots : InsertsTask(c) =>
        tasks'[Len(tasks')].workspace_id
            = Row(agent_events, calls[c].input.event_id).workspace_id]_vars

\* agentConfirm over a store whose update of the event may fail.  Every
\* awaited store operation settles and the handler continues: the steps of a
\* call in flight are taken under weak fairness.
NextFaults ==
    \/ \E c \in Slots : ConfirmSelectBounded(c)
    \/ \E c \in Slots : ConfirmUpdateRejected(c)
    \/ \E c \in Slots : ConfirmInsertTask(c)
    \/ \E c \in Slots : ConfirmUpdate(c)
    \/ \E c \in Slots : ConfirmUpdateFails(c)

Continues(c) ==
    \/ ConfirmUpdateRejected(c)
    \/ ConfirmInsertTask(c)
    \/ ConfirmUpdate(c)
    \/ ConfirmUpdateFails(c)

SpecFaults ==
    InitTaskFields /\ [][NextFaults]_vars /\ \A c \in Slots : WF_vars(Continues(c))

\* C29: task creation and the event's transition are atomic: in no reachable
\* state does a task that an agentConfirm call created exist while the event
\* of the call still awaits confirmation.
C29_TaskNeverPrecedesTransition ==
    \A c \in Slots :
        (calls[c].pc = "update" /\ Has(calls[c].executionResult, "created_task_id"))
        => /\ ValueOf(calls[c].executionResult.created_task_id) \in Ids(tasks)
           /\ Row(agent_events, calls[c].input.event_id).status # "awaiting_confirmation"

\* C30: every agentConfirm call on an event that awaits confirmation comes to
\* an end, and a call that returns leaves the event executed or in error, the
\* call whose insert of the task failed included.
C30_ConfirmEndsInTerminalStatus ==
    /\ []((Confirmed /\ Returned) =>
            Row(agent_events, response.input.event_id).status \in {"executed", "error"})
    /\ \A c \in Slots : InFlight(c) ~> ~InFlight(c)

C30_Witness ==
    /\ Confirmed /\ Returned
    /\ response.input.approved
    /\ Has(response.value.execution_result, "error")
    /\ ~Truthy(response.value.execution_result, "success")
    /\ Row(agent_events, response.input.event_id).status = "error"
    /\ tasks = <<>>

====
